---------------------------- MODULE Spec2Model ----------------------------
(***************************************************************************)
(* A model of the groklang execution pipeline: the runtime values and the  *)
(* mark-sweep heap (src/grok/src/vm.rs), the baseline interpreter with its *)
(* actor runtime and deadlock sentinel (VM::execute), the optimized        *)
(* interpreter (src/grok/src/optimizations.rs) and the native code         *)
(* generator (src/grok/src/jit.rs).                                        *)
(*                                                                         *)
(* Indices are 0-based as in the source; TLA+ sequences are 1-based, so    *)
(* slot i of a Vec is element i + 1 of the sequence that models it.        *)
(***************************************************************************)
EXTENDS Integers, Sequences, FiniteSets, TLC

VARIABLES
    heap,        \* Heap: objects, marked, free_list (shared, behind one mutex)
    gc_in,       \* SpecGc: the roots handed to Heap::gc (stack, call_stack, globals)
    gc_pre,      \* SpecGc: the heap as it was when Heap::gc was called
    gc_done      \* SpecGc: TRUE once Heap::gc has run

gcVars == <<gc_in, gc_pre, gc_done>>

VARIABLES
    jit_prog,    \* SpecJit: the program loaded into the OptimizedVM
    jit_args,    \* SpecJit: the integer arguments of the call
    ovm,         \* SpecJit, SpecHotVm: the OptimizedVM and the position of its execute
    nat          \* SpecJit: the function JITCompiler::compile builds, and its run

jitVars == <<jit_prog, jit_args, ovm, nat>>

VARIABLES
    hot,         \* SpecHot, SpecHotVm: a HotPathTracker and what its calls returned
                 \* (SpecHot); the executions and loads of the OptimizedVM (SpecHotVm)
    opz,         \* SpecOpt: a BytecodeOptimizer and the functions it has specialized
    icache,      \* SpecCache: an InlineCache and the first value cached per key
    tcall,       \* SpecTail: an IRFunction and what the specializer made of it
    octx,        \* SpecCtx: an OptimizedContext and its last execute_specialized
    probe,       \* SpecBoth: the instructions of the program of scenario "probe"
    gen,         \* SpecGen: a function definition, the IRGenerator and the
                 \* BytecodeOptimizer, and what they have made of the definition
    bc           \* SpecBorrow: a BorrowChecker and the last call made on it

auxVars == <<hot, opz, icache, tcall, octx, probe, gen, bc>>

\* What an action of the baseline VM leaves alone
restVars == <<gcVars, jitVars, auxVars>>

(***************************************************************************)
(* Value (vm.rs:10-18).  A value is a tag and a payload; the payload of    *)
(* Unit is 0, of Bool 0 or 1, of Object the heap index, of Actor the id.   *)
(***************************************************************************)
VInt(n) == [tag |-> "Int", v |-> n]

VFloat(n) == [tag |-> "Float", v |-> n]

VBool(b) == [tag |-> "Bool", v |-> IF b THEN 1 ELSE 0]

Object(i) == [tag |-> "Object", v |-> i]

Actor(id) == [tag |-> "Actor", v |-> id]

Unit == [tag |-> "Unit", v |-> 0]

EmptyMap == [n \in {} |-> Unit]

\* HashMap::insert on a map from names to values
MapInsert(m, k, val) == [n \in DOMAIN m \cup {k} |-> IF n = k THEN val ELSE m[n]]

RECURSIVE SetToSeq(_)
\* The elements of a finite set of integers in ascending order
SetToSeq(S) ==
    IF S = {} THEN <<>>
    ELSE LET m == CHOOSE x \in S : \A y \in S : x <= y
         IN  <<m>> \o SetToSeq(S \ {m})

RECURSIVE MapValues(_)
\* HashMap::values: the values of a map, in one (arbitrary but fixed) order
MapValues(m) ==
    IF DOMAIN m = {} THEN <<>>
    ELSE LET k == CHOOSE x \in DOMAIN m : TRUE
         IN  <<m[k]>> \o MapValues([n \in DOMAIN m \ {k} |-> m[n]])

SeqRange(s) == {s[i] : i \in 1..Len(s)}

(***************************************************************************)
(* HeapObject (vm.rs:35-39) and an empty slot (Option::None).              *)
(***************************************************************************)
NoneObj == [kind |-> "None", name |-> "", fields |-> EmptyMap]

StrObj(s) == [kind |-> "Str", name |-> s, fields |-> EmptyMap]

StructObj(name, fields) == [kind |-> "Struct", name |-> name, fields |-> fields]

\* Heap::new
HeapNew == [objects |-> <<>>, marked |-> <<>>, free_list |-> <<>>]

\* Mutant of alloc: the index it reuses stays on the free list
Alloc_KeepFree(h, obj) ==
    IF h.free_list # <<>>
    THEN LET idx == h.free_list[Len(h.free_list)]
         IN  [heap |-> [h EXCEPT !.objects[idx + 1] = obj], idx |-> idx]
    ELSE [heap |-> [h EXCEPT !.objects = Append(h.objects, obj),
                             !.marked = Append(h.marked, FALSE)],
          idx |-> Len(h.objects)]

\* Heap::alloc: reuse the last index of the free list, else append
Alloc(h, obj) ==
    IF h.free_list # <<>>
    THEN LET idx == h.free_list[Len(h.free_list)]
         IN  [heap |-> [h EXCEPT !.objects[idx + 1] = obj,
                                 !.free_list = SubSeq(h.free_list, 1, Len(h.free_list) - 1)],
              idx |-> idx]
    ELSE [heap |-> [h EXCEPT !.objects = Append(h.objects, obj),
                             !.marked = Append(h.marked, FALSE)],
          idx |-> Len(h.objects)]

\* Heap::get: None for an index out of range or an empty slot
HeapGet(h, idx) ==
    IF idx >= 0 /\ idx < Len(h.objects) THEN h.objects[idx + 1] ELSE NoneObj

\* Mutant of mark_value: marks the object a root names, not what its fields name
MarkValue_NoFields(objects, marked, val) ==
    IF val.tag # "Object" THEN marked
    ELSE [marked EXCEPT ![val.v + 1] = TRUE]

RECURSIVE MarkValue(_, _, _)
RECURSIVE MarkValues(_, _, _)
\* Heap::mark_value: mark an unmarked object and, for a struct, its fields
MarkValue(objects, marked, val) ==
    IF val.tag # "Object" THEN marked
    ELSE IF marked[val.v + 1] THEN marked
    ELSE LET m1 == [marked EXCEPT ![val.v + 1] = TRUE]
             obj == objects[val.v + 1]
         IN  IF obj.kind = "Struct"
             THEN MarkValues(objects, m1, MapValues(obj.fields))
             ELSE m1

\* the loops `for val in ... { self.mark_value(val) }`
MarkValues(objects, marked, vals) ==
    IF vals = <<>> THEN marked
    ELSE MarkValues(objects, MarkValue(objects, marked, Head(vals)), Tail(vals))

RECURSIVE FrameValues(_)
\* the values of every frame's locals, frame by frame
FrameValues(call_stack) ==
    IF call_stack = <<>> THEN <<>>
    ELSE MapValues(Head(call_stack).locals) \o FrameValues(Tail(call_stack))

\* Mutant of the roots: the locals of the frames are left out
GcRoots_NoLocals(stack, call_stack, globals) == stack \o MapValues(globals)

\* The roots of one collection, in the order Heap::gc visits them
GcRoots(stack, call_stack, globals) ==
    stack \o FrameValues(call_stack) \o MapValues(globals)

\* Mutant of the first loop of Heap::gc: the mark bits of the last cycle are kept
ClearMarks_Keep(marked) == marked

\* Heap::gc, line 73: every mark bit is cleared
ClearMarks(marked) == [i \in 1..Len(marked) |-> FALSE]

\* Heap::gc, lines 79-84: the slots the sweep frees, in ascending order
SweepFreed(objects, marked) ==
    SetToSeq({i \in 0..(Len(objects) - 1) :
                 ~marked[i + 1] /\ objects[i + 1].kind # "None"})

\* Heap::gc
Gc(h, stack, call_stack, globals) ==
    LET marked == MarkValues(h.objects, ClearMarks(h.marked),
                             GcRoots(stack, call_stack, globals))
        freed  == SweepFreed(h.objects, marked)
    IN  [objects   |-> [i \in 1..Len(h.objects) |->
                           IF (i - 1) \in SeqRange(freed) THEN NoneObj ELSE h.objects[i]],
         marked    |-> marked,
         free_list |-> h.free_list \o freed]

(***************************************************************************)
(* IR (ir.rs:5-49).  An opcode is a record: op, an integer operand i, a    *)
(* name operand s and a list of field names fs; an operand an opcode does  *)
(* not have is 0, "" or <<>>.                                              *)
(***************************************************************************)
Op(op, i, s, fs) == [op |-> op, i |-> i, s |-> s, fs |-> fs]

PushInt(n) == Op("PushInt", n, "", <<>>)

PushFloat(n) == Op("PushFloat", n, "", <<>>)

PushStr(s) == Op("PushStr", 0, s, <<>>)

PushBool(b) == Op("PushBool", IF b THEN 1 ELSE 0, "", <<>>)

LoadVar(name) == Op("LoadVar", 0, name, <<>>)

StoreVar(name) == Op("StoreVar", 0, name, <<>>)

LoadField(name) == Op("LoadField", 0, name, <<>>)

Add == Op("Add", 0, "", <<>>)

Sub == Op("Sub", 0, "", <<>>)

Mul == Op("Mul", 0, "", <<>>)

Div == Op("Div", 0, "", <<>>)

Eq == Op("Eq", 0, "", <<>>)

Ne == Op("Ne", 0, "", <<>>)

Lt == Op("Lt", 0, "", <<>>)

Gt == Op("Gt", 0, "", <<>>)

Le == Op("Le", 0, "", <<>>)

Ge == Op("Ge", 0, "", <<>>)

Jmp(label) == Op("Jmp", 0, label, <<>>)

JmpIfFalse(label) == Op("JmpIfFalse", 0, label, <<>>)

PushStruct(name, fields) == Op("PushStruct", 0, name, fields)

Call(name, argc) == Op("Call", argc, name, <<>>)

Ret == Op("Ret", 0, "", <<>>)

Spawn(name, argc) == Op("Spawn", argc, name, <<>>)

Send == Op("Send", 0, "", <<>>)

Receive == Op("Receive", 0, "", <<>>)

IRBlock(label, instructions) == [label |-> label, instructions |-> instructions]

IRFunction(name, params, blocks) == [name |-> name, params |-> params, blocks |-> blocks]

\* VM::load_program: the function table, keyed by name
LoadProgram(funcs) ==
    [n \in {funcs[i].name : i \in 1..Len(funcs)} |->
        funcs[CHOOSE i \in 1..Len(funcs) :
                 /\ funcs[i].name = n
                 /\ \A j \in (i + 1)..Len(funcs) : funcs[j].name # n]]

(***************************************************************************)
(* The programs the baseline VM is run on, as IRGenerator::generate emits  *)
(* them (ir.rs:60-377): `let x = e` is e; StoreVar x, `receive {}` is      *)
(* Receive, `a ! m` is a; m; Send, `loop {}` is Jmp body / body: Jmp body  *)
(* / end:, and every body ends with an appended Ret.                       *)
(***************************************************************************)
\* actor Waiter { let msg = receive {}; }   (tests/vm_concurrency_advanced.rs:9-11)
WaiterFn(name) ==
    IRFunction(name, <<>>, <<IRBlock("entry", <<Receive, StoreVar("msg"), Ret>>)>>)

\* tests/vm_concurrency_advanced.rs:8-20, test_deadlock_detection
DeadlockProgram ==
    <<WaiterFn("Waiter"),
      IRFunction("main", <<>>, <<IRBlock("entry",
          <<Spawn("Waiter", 0), StoreVar("w"), Receive, StoreVar("msg"), Ret>>)>>)>>

\* tests/vm_actor.rs:9-18, test_actor_vm_execution
PingProgram ==
    <<WaiterFn("Pong"),
      IRFunction("main", <<>>, <<IRBlock("entry",
          <<Spawn("Pong", 0), StoreVar("p"), LoadVar("p"), PushInt(42), Send, Ret>>)>>)>>

\* tests/vm_concurrency_advanced.rs:42-51, test_actor_failure_reporting
CrashProgram ==
    <<IRFunction("Crashy", <<>>, <<IRBlock("entry",
          <<PushInt(1), PushInt(0), Div, StoreVar("x"), Ret>>)>>),
      IRFunction("main", <<>>, <<IRBlock("entry",
          <<Spawn("Crashy", 0), StoreVar("c"), Ret>>)>>)>>

\* A receiver of three messages, a relay that is told the receiver and sends
\* it 3, and a main that sends the receiver 1 and then 2.
FifoProgram ==
    <<IRFunction("Sink", <<>>, <<IRBlock("entry",
          <<Receive, StoreVar("a"), Receive, StoreVar("b"),
            Receive, StoreVar("c"), Ret>>)>>),
      IRFunction("Relay", <<>>, <<IRBlock("entry",
          <<Receive, StoreVar("r"), LoadVar("r"), PushInt(3), Send, Ret>>)>>),
      IRFunction("main", <<>>, <<IRBlock("entry",
          <<Spawn("Sink", 0), StoreVar("r"), Spawn("Relay", 0), StoreVar("t"),
            LoadVar("t"), LoadVar("r"), Send,
            LoadVar("r"), PushInt(1), Send,
            LoadVar("r"), PushInt(2), Send, Ret>>)>>)>>

\* A main that keeps a string in a local while an actor runs `loop {}`.
GcRaceProgram ==
    <<IRFunction("Spin", <<>>,
          <<IRBlock("entry", <<Jmp("loop_body_0")>>),
            IRBlock("loop_body_0", <<Jmp("loop_body_0")>>),
            IRBlock("loop_end_0", <<Ret>>)>>),
      IRFunction("main", <<>>, <<IRBlock("entry",
          <<PushStr("s"), StoreVar("s"), Spawn("Spin", 0), StoreVar("a"),
            LoadVar("s"), StoreVar("t"), Ret>>)>>)>>

\* A main that spawns an actor that ends at once and then an actor that waits.
LateSpawnProgram ==
    <<IRFunction("Quick", <<>>, <<IRBlock("entry", <<Ret>>)>>),
      WaiterFn("Waiter"),
      IRFunction("main", <<>>, <<IRBlock("entry",
          <<Spawn("Quick", 0), StoreVar("q"), Spawn("Waiter", 0), StoreVar("w"),
            Ret>>)>>)>>

\* A main that builds a struct, reads a field back and calls a function.
StructProgram ==
    <<IRFunction("get", <<"p">>, <<IRBlock("entry",
          <<LoadVar("p"), LoadField("x"), Ret>>)>>),
      IRFunction("main", <<>>, <<IRBlock("entry",
          <<PushInt(42), PushStruct("Point", <<"x">>), Call("get", 1), Ret>>)>>)>>

\* A main that spawns an actor which spawns two actors of its own while main
\* spawns another.
SpawnTreeProgram ==
    <<IRFunction("Leaf", <<>>, <<IRBlock("entry", <<Ret>>)>>),
      IRFunction("Parent", <<>>, <<IRBlock("entry",
          <<Spawn("Leaf", 0), StoreVar("a"), Spawn("Leaf", 0), StoreVar("b"), Ret>>)>>),
      IRFunction("main", <<>>, <<IRBlock("entry",
          <<Spawn("Parent", 0), StoreVar("p"), Spawn("Leaf", 0), StoreVar("l"),
            Ret>>)>>)>>

\* The iterations of the loop of GcReuseProgram: enough for two collections
GcSpins == 180

\* A program without Spawn: main keeps a string in a local and hands a struct
\* that holds another string to hold(p); hold drops a new string in every
\* iteration of a loop that runs over two collections, then reads the field
\* of p, and main stores what hold returned and returns its own string.
GcReuseProgram ==
    <<IRFunction("hold", <<"p">>,
          <<IRBlock("entry", <<PushInt(0), StoreVar("i")>>),
            IRBlock("loop_cond_0", <<LoadVar("i"), PushInt(GcSpins), Lt,
                                     JmpIfFalse("loop_end_0")>>),
            IRBlock("loop_body_0", <<PushStr("g"), StoreVar("g"), LoadVar("i"), PushInt(1),
                                     Add, StoreVar("i"),
                                     Jmp("loop_cond_0")>>),
            IRBlock("loop_end_0", <<LoadVar("p"), LoadField("f"), Ret>>)>>),
      IRFunction("main", <<>>, <<IRBlock("entry",
          <<PushStr("q"), StoreVar("q"), PushStr("s"), PushStruct("P", <<"f">>),
            Call("hold", 1), StoreVar("r"), LoadVar("q"), Ret>>)>>)>>

\* A main that spawns an actor with one argument; the actor reads its
\* parameter and returns it.
SpawnArgsProgram ==
    <<IRFunction("Echo", <<"x">>, <<IRBlock("entry", <<LoadVar("x"), Ret>>)>>),
      IRFunction("main", <<>>, <<IRBlock("entry",
          <<PushInt(7), Spawn("Echo", 1), StoreVar("e"), Ret>>)>>)>>

\* A main that sends to an actor that ends at once and then to an integer.
SendCasesProgram ==
    <<IRFunction("Quick", <<>>, <<IRBlock("entry", <<Ret>>)>>),
      IRFunction("main", <<>>, <<IRBlock("entry",
          <<Spawn("Quick", 0), StoreVar("q"), LoadVar("q"), PushInt(5), Send,
            PushInt(1), PushInt(2), Send, Ret>>)>>)>>

\* The program of scenario "probe": a main that pushes values (pre), executes
\* the instructions under test (ops) at the end of its entry block and
\* returns what is on top in the next block; a third block that returns 20;
\* the functions and the actor the instructions under test name.
ProbeProgram(case) ==
    <<IRFunction("main", <<>>,
          <<IRBlock("entry", case.pre \o case.ops),
            IRBlock("mid", <<Ret>>),
            IRBlock("far", <<PushInt(20), Ret>>)>>),
      \* fn inc(x) { let v = x + 1; return v }
      IRFunction("inc", <<"x">>, <<IRBlock("entry",
          <<LoadVar("x"), PushInt(1), Add, StoreVar("v"), LoadVar("v"), Ret>>)>>),
      \* fn noop() { }
      IRFunction("noop", <<>>, <<IRBlock("entry", <<Ret>>)>>),
      \* actor Idle { }
      IRFunction("Idle", <<>>, <<IRBlock("entry", <<Ret>>)>>),
      \* fn peek() { return v }: v is a variable of inc only
      IRFunction("peek", <<>>, <<IRBlock("entry", <<LoadVar("v"), Ret>>)>>)>>

Scenarios == {"deadlock", "deadlock_open", "ping", "crash", "fifo", "gc_race",
              "late_spawn", "struct", "spawn_args", "send_cases", "gc_reuse",
              "spawn_tree"}

ScenarioProgram(sc) ==
    CASE sc = "deadlock"      -> DeadlockProgram
      [] sc = "deadlock_open" -> DeadlockProgram
      [] sc = "ping"          -> PingProgram
      [] sc = "crash"         -> CrashProgram
      [] sc = "fifo"          -> FifoProgram
      [] sc = "gc_race"       -> GcRaceProgram
      [] sc = "late_spawn"    -> LateSpawnProgram
      [] sc = "struct"        -> StructProgram
      [] sc = "gc_reuse"      -> GcReuseProgram
      [] sc = "spawn_tree"    -> SpawnTreeProgram
      [] sc = "spawn_args"    -> SpawnArgsProgram
      [] sc = "send_cases"    -> SendCasesProgram
      [] sc = "probe"         -> ProbeProgram(probe)

\* The mailbox the caller hands to the root execute: None, a receiver whose
\* sender is already dropped (unbounded_channel().1), or a receiver whose
\* sender the caller keeps and never uses.
ScenarioMailbox(sc) ==
    CASE sc = "deadlock"      -> "closed"
      [] sc = "deadlock_open" -> "open"
      [] OTHER                -> "none"

(***************************************************************************)
(* The baseline VM (vm.rs:100-541).  Every execution context (the root     *)
(* execute and one per spawned actor) is a VM of its own: operand stack,   *)
(* call stack, globals, its GC timer and its deadlock receiver.  The heap, *)
(* the registry and the function table are shared.  Context 0 is the root  *)
(* (current_actor_id = None); context id is the actor with that id.        *)
(***************************************************************************)
VARIABLES
    scenario,      \* the program loaded (VM::load_program) and the root's mailbox
    ctx,           \* id -> VM and the position of its execute future
    registry,      \* ActorRegistry: actors (id -> ActorMetadata), next_id
    mailbox,       \* id -> the unbounded channel of that context
    sentinel,      \* the deadlock sentinel task: "none", "looping", "exited"
    deadlock_sent, \* the number of sends on deadlock_notifier
    sent           \* history: every message handed to a mailbox sender

vmVars == <<scenario, ctx, registry, mailbox, sentinel, deadlock_sent, sent>>

\* vm.rs:231, `if gc_timer > 1000`
GC_INTERVAL == 1000

Functions == LoadProgram(ScenarioProgram(scenario))

NoResult == [kind |-> "none", val |-> Unit, err |-> ""]

Ok(val) == [kind |-> "ok", val |-> val, err |-> ""]

Err(msg) == [kind |-> "err", val |-> Unit, err |-> msg]

DeadlockError == "Execution aborted due to deadlock"

Frame(func_name, locals) ==
    [func_name |-> func_name, current_block_idx |-> 0, current_instr_idx |-> 0,
     locals |-> locals]

\* The VM a Spawn builds (vm.rs:427-435) or VM::new builds (vm.rs:148-165),
\* with the entry its execute is called on; pc is the position of the execute
\* future: "unstarted" (not polled yet), "running" (in the loop), "receiving"
\* (in the select of Receive), "returned", "exited" (the task has ended).
NewVM(id, entry) ==
    [entry |-> entry, current_actor_id |-> id, stack |-> <<>>, call_stack |-> <<>>,
     globals |-> EmptyMap, gc_timer |-> 0, pc |-> "unstarted", result |-> NoResult,
     deadlock_rx |-> 0, received |-> <<>>]

CurFrame(vm) == vm.call_stack[Len(vm.call_stack)]

FuncKnown(vm) == CurFrame(vm).func_name \in DOMAIN Functions

CurFunc(vm) == Functions[CurFrame(vm).func_name]

CurBlock(vm) == CurFunc(vm).blocks[CurFrame(vm).current_block_idx + 1]

AtBlockEnd(vm) == CurFrame(vm).current_instr_idx >= Len(CurBlock(vm).instructions)

CurInstr(vm) == CurBlock(vm).instructions[CurFrame(vm).current_instr_idx + 1]

WithFrame(vm, f) == [vm EXCEPT !.call_stack[Len(vm.call_stack)] = f]

\* `return res` from execute: the VM (self) and the mailbox receiver are dropped
Return(vm, res) ==
    [vm EXCEPT !.pc = "returned", !.result = res, !.stack = <<>>, !.call_stack = <<>>]

Fail(vm, msg) == Return(vm, Err(msg))

Push(vm, val) == [vm EXCEPT !.stack = Append(@, val)]

\* the stack without its top n values
Below(stack, n) == SubSeq(stack, 1, Len(stack) - n)

\* the top n values of the stack, in push order (popped and reversed)
TopN(stack, n) == SubSeq(stack, Len(stack) - n + 1, Len(stack))

Abs(n) == IF n < 0 THEN -n ELSE n

\* i64 `/`: the quotient truncated toward zero, for b # 0
TruncDiv(a, b) ==
    LET q == Abs(a) \div Abs(b) IN IF (a < 0) # (b < 0) THEN -q ELSE q

\* Mutant of the Div arm: no test of the divisor (a zero divisor yields 0)
DivArm_Unchecked(vm, a, b) ==
    Push(vm, VInt(IF b = 0 THEN 0 ELSE TruncDiv(a, b)))

\* vm.rs:308-311
DivArm(vm, a, b) ==
    IF b = 0 THEN Fail(vm, "Division by zero") ELSE Push(vm, VInt(TruncDiv(a, b)))

\* vm.rs:280-356: the binary opcodes; vm's stack is already without a and b.
\* The programs of the baseline VM keep their integers far from the limits of
\* i64, so the arithmetic is exact here; execute_specialized keeps the width.
BinaryArm(vm, op, a, b) ==
    IF op = "Eq" THEN Push(vm, VBool(a = b))
    ELSE IF op = "Ne" THEN Push(vm, VBool(a # b))
    ELSE IF a.tag = "Int" /\ b.tag = "Int" THEN
        CASE op = "Add" -> Push(vm, VInt(a.v + b.v))
          [] op = "Sub" -> Push(vm, VInt(a.v - b.v))
          [] op = "Mul" -> Push(vm, VInt(a.v * b.v))
          [] op = "Div" -> DivArm(vm, a.v, b.v)
          [] op = "Lt"  -> Push(vm, VBool(a.v < b.v))
          [] op = "Gt"  -> Push(vm, VBool(a.v > b.v))
          [] op = "Le"  -> Push(vm, VBool(a.v <= b.v))
          [] op = "Ge"  -> Push(vm, VBool(a.v >= b.v))
    ELSE Fail(vm, "Invalid types")

BinaryOps == {"Add", "Sub", "Mul", "Div", "Eq", "Ne", "Lt", "Gt", "Le", "Ge"}

\* func.blocks.iter().position(|b| b.label == label), -1 for None
LabelPosition(func, label) ==
    LET hits == {i \in 1..Len(func.blocks) : func.blocks[i].label = label}
    IN  IF hits = {} THEN -1 ELSE (CHOOSE i \in hits : \A j \in hits : i <= j) - 1

\* vm.rs:471-472 and 477-478
JumpTo(vm, label) ==
    LET pos == LabelPosition(CurFunc(vm), label)
    IN  IF pos < 0 THEN Fail(vm, "Invalid jump")
        ELSE WithFrame(vm, [CurFrame(vm) EXCEPT !.current_block_idx = pos,
                                                !.current_instr_idx = 0])

\* vm.rs:489-492: params zipped with the arguments
BindParams(params, args) ==
    LET n == IF Len(params) < Len(args) THEN Len(params) ELSE Len(args)
    IN  [p \in {params[i] : i \in 1..n} |->
            args[CHOOSE i \in 1..n : params[i] = p /\ \A j \in (i + 1)..n : params[j] # p]]

\* vm.rs:266-356 and 470-509: the opcodes that touch nothing but this VM;
\* vm has current_instr_idx already advanced
ExecOpcode(vm, ins) ==
    LET st == vm.stack
        fr == CurFrame(vm)
    IN
    CASE ins.op = "PushInt"   -> Push(vm, VInt(ins.i))
      [] ins.op = "PushBool"  -> Push(vm, [tag |-> "Bool", v |-> ins.i])
      [] ins.op = "PushFloat" -> Push(vm, VFloat(ins.i))
      [] ins.op = "LoadVar" ->
            IF ins.s \in DOMAIN fr.locals THEN Push(vm, fr.locals[ins.s])
            ELSE IF ins.s \in DOMAIN vm.globals THEN Push(vm, vm.globals[ins.s])
            ELSE Fail(vm, "Variable not found")
      [] ins.op = "StoreVar" ->
            IF st = <<>> THEN Fail(vm, "Stack underflow in StoreVar")
            ELSE WithFrame([vm EXCEPT !.stack = Below(st, 1)],
                           [fr EXCEPT !.locals = MapInsert(@, ins.s, st[Len(st)])])
      [] ins.op \in BinaryOps ->
            IF Len(st) < 2 THEN Fail(vm, "Stack underflow")
            ELSE BinaryArm([vm EXCEPT !.stack = Below(st, 2)], ins.op,
                           st[Len(st) - 1], st[Len(st)])
      [] ins.op = "Jmp" -> JumpTo(vm, ins.s)
      [] ins.op = "JmpIfFalse" ->
            IF st = <<>> THEN vm
            ELSE IF st[Len(st)] = VBool(FALSE)
                 THEN JumpTo([vm EXCEPT !.stack = Below(st, 1)], ins.s)
                 ELSE [vm EXCEPT !.stack = Below(st, 1)]
      [] ins.op = "Call" ->
            IF Len(st) < ins.i THEN Fail(vm, "Stack underflow in Call")
            ELSE IF ins.s \notin DOMAIN Functions THEN Fail(vm, "Function not found")
            ELSE [vm EXCEPT !.stack = Below(st, ins.i),
                            !.call_stack = Append(@,
                                Frame(ins.s, BindParams(Functions[ins.s].params,
                                                        TopN(st, ins.i))))]
      [] ins.op = "Ret" -> [vm EXCEPT !.call_stack = Below(@, 1)]

\* What the iteration of the loop of execute that comes next does:
\* "local" (only this VM changes), "return" (the entry frame is popped),
\* "heap", "spawn", "send" or "receive"
StepKind(vm) ==
    IF ~FuncKnown(vm) THEN "local"
    ELSE IF AtBlockEnd(vm)
         THEN IF CurFrame(vm).current_block_idx + 1 < Len(CurFunc(vm).blocks)
                 \/ Len(vm.call_stack) > 1
              THEN "local" ELSE "return"
    ELSE LET op == CurInstr(vm).op IN
         CASE op = "Ret" -> IF Len(vm.call_stack) > 1 THEN "local" ELSE "return"
           [] op \in {"PushStr", "PushStruct", "LoadField"} -> "heap"
           [] op = "Spawn" -> "spawn"
           [] op = "Send" -> "send"
           [] op = "Receive" -> "receive"
           [] OTHER -> "local"

Advanced(vm) == WithFrame(vm, [CurFrame(vm) EXCEPT !.current_instr_idx = @ + 1])

\* vm.rs:242-264 and the arms of ExecOpcode: one iteration that touches
\* nothing but this VM
ExecLocal(vm) ==
    IF ~FuncKnown(vm) THEN Fail(vm, "Function not found")
    ELSE IF AtBlockEnd(vm)
         THEN IF CurFrame(vm).current_block_idx + 1 < Len(CurFunc(vm).blocks)
              THEN WithFrame(vm, [CurFrame(vm) EXCEPT !.current_block_idx = @ + 1,
                                                      !.current_instr_idx = 0])
              ELSE [vm EXCEPT !.call_stack = Below(@, 1)]
    ELSE ExecOpcode(Advanced(vm), CurInstr(vm))

\* vm.rs:230-237: the GC pacing of one iteration
GcDue(vm) == vm.gc_timer + 1 > GC_INTERVAL

Ticked(vm) == [vm EXCEPT !.gc_timer = IF GcDue(vm) THEN 0 ELSE @ + 1]

HeapAfterTick(vm) ==
    IF GcDue(vm) THEN Gc(heap, vm.stack, vm.call_stack, vm.globals) ELSE heap

(***************************************************************************)
(* The shared parts: the registry, the mailboxes, the deadlock channel.    *)
(***************************************************************************)
\* A channel: present (the context has a mailbox at all), the queue, whether a
\* sender is alive and whether the receiver is alive
Channel(present, senders) ==
    [present |-> present, queue |-> <<>>, senders |-> senders, rx |-> present]

RootMailbox(sc) ==
    CASE ScenarioMailbox(sc) = "none"   -> Channel(FALSE, FALSE)
      [] ScenarioMailbox(sc) = "closed" -> Channel(TRUE, FALSE)
      [] ScenarioMailbox(sc) = "open"   -> Channel(TRUE, TRUE)

\* Mutant of the mailbox: a send puts the message at the head of the queue
MailboxPush_Lifo(queue, msg) == <<msg>> \o queue

\* UnboundedSender::send on a live receiver: the message goes to the tail
MailboxPush(queue, msg) == Append(queue, msg)

SendOk_Closed(mb, id) == TRUE

\* vm.rs:461: UnboundedSender::send succeeds while the receiver is alive; its
\* Err (receiver dropped) is discarded by `let _ =`
SendOk(mb, id) == mb[id].rx

\* ActorMetadata (vm.rs:120-129), without mailbox_tx, which is mailbox[id]
ActorMetadata(id, func_name, args, parent_id) ==
    [id |-> id, func_name |-> func_name, args |-> args, parent_id |-> parent_id,
     children |-> <<>>, policy |-> "OneForOne", status |-> "Running"]

\* VM::set_actor_status (vm.rs:175-181); the root has no id and no entry
SetActorStatus(reg, id, status) ==
    IF id \in DOMAIN reg.actors THEN [reg EXCEPT !.actors[id].status = status] ELSE reg

\* Mutant of the task wrapper: an actor whose execute returned Ok is marked too
ExitStatus_Always(res, old) == "Failed"

\* Mutant of the task wrapper: the error is dropped and the status kept
ExitStatus_Never(res, old) == old

\* vm.rs:437-450: the status after the task's execute has returned res
ExitStatus(res, old) == IF res.kind = "err" THEN "Failed" ELSE old

StatusCount(reg, status) ==
    Cardinality({a \in DOMAIN reg.actors : reg.actors[a].status = status})

\* Mutant of the sentinel's test: Running actors are not looked at
DeadlockDetected_IgnoreRunning(reg) ==
    /\ Cardinality(DOMAIN reg.actors) # 0
    /\ StatusCount(reg, "BlockedOnReceive") > 0

\* vm.rs:204-210: total_actors # 0, active_actors = 0 and blocked_actors > 0
DeadlockDetected(reg) ==
    /\ Cardinality(DOMAIN reg.actors) # 0
    /\ StatusCount(reg, "Running") = 0
    /\ StatusCount(reg, "BlockedOnReceive") > 0

\* vm.rs:216: every actor is Stopped or Failed
AllTerminal(reg) ==
    \A a \in DOMAIN reg.actors : reg.actors[a].status \in {"Stopped", "Failed"}

\* The contexts that hold a subscribed deadlock receiver
Subscribed(c) == ctx[c].pc \in {"running", "receiving"}

CloseRx(mb, c) == [mb EXCEPT ![c].rx = FALSE, ![c].queue = <<>>]

\* The mailboxes after context c has become vm2: a returned execute drops its receiver
MailboxAfter(mb, c, vm2) == IF vm2.pc = "returned" THEN CloseRx(mb, c) ELSE mb

Runnable(c) == ctx[c].pc = "running" /\ ctx[c].deadlock_rx = 0

(***************************************************************************)
(* The actions.  One iteration of the loop of execute (vm.rs:225-537) is   *)
(* one action: the deadlock poll, the GC pacing and one instruction.       *)
(***************************************************************************)
\* vm.rs:184-221: the prologue of execute: the entry frame, the subscription
\* and, in the root, the sentinel task
Start(c) ==
    /\ ctx[c].pc = "unstarted"
    /\ ctx' = [ctx EXCEPT ![c] = [@ EXCEPT !.call_stack = <<Frame(ctx[c].entry, EmptyMap)>>,
                                           !.pc = "running", !.deadlock_rx = 0]]
    /\ sentinel' = IF ctx[c].current_actor_id = 0 THEN "looping" ELSE sentinel
    /\ UNCHANGED <<restVars, scenario, registry, mailbox, deadlock_sent, sent, heap>>

\* vm.rs:226-228: the poll of the deadlock receiver at the top of the loop
AbortOnDeadlock(c) ==
    /\ ctx[c].pc = "running"
    /\ ctx[c].deadlock_rx > 0
    /\ ctx' = [ctx EXCEPT ![c] = Fail(@, DeadlockError)]
    /\ mailbox' = CloseRx(mailbox, c)
    /\ UNCHANGED <<restVars, scenario, registry, sentinel, deadlock_sent, sent, heap>>

StepLocal(c) ==
    /\ Runnable(c)
    /\ StepKind(ctx[c]) = "local"
    /\ LET vm2 == ExecLocal(Ticked(ctx[c])) IN
         /\ ctx' = [ctx EXCEPT ![c] = vm2]
         /\ mailbox' = MailboxAfter(mailbox, c, vm2)
    /\ heap' = HeapAfterTick(ctx[c])
    /\ UNCHANGED <<restVars, scenario, registry, sentinel, deadlock_sent, sent>>

\* vm.rs:252-258 and 501-508: the entry frame is popped
StepReturn(c) ==
    /\ Runnable(c)
    /\ StepKind(ctx[c]) = "return"
    /\ LET st == ctx[c].stack IN
         ctx' = [ctx EXCEPT ![c] =
                    Return(Ticked(@), Ok(IF st = <<>> THEN Unit ELSE st[Len(st)]))]
    /\ registry' = SetActorStatus(registry, ctx[c].current_actor_id, "Stopped")
    /\ mailbox' = CloseRx(mailbox, c)
    /\ heap' = HeapAfterTick(ctx[c])
    /\ UNCHANGED <<restVars, scenario, sentinel, deadlock_sent, sent>>

\* Mutant of the binding of PushStruct: field i gets the i-th value from the
\* top, the values in the order they are popped
StructFields_PopOrder(fields, vals) ==
    [f \in SeqRange(fields) |->
        vals[Len(fields) + 1 - (CHOOSE i \in 1..Len(fields) :
                                   /\ fields[i] = f
                                   /\ \A j \in 1..(i - 1) : fields[j] # f)]]

\* The fields of PushStruct(name, fields): field i is the i-th of the top
\* Len(fields) values; of two fields of one name the first is kept
StructFields(fields, vals) ==
    [f \in SeqRange(fields) |->
        vals[CHOOSE i \in 1..Len(fields) :
                /\ fields[i] = f
                /\ \A j \in 1..(i - 1) : fields[j] # f]]

\* vm.rs:358-386: PushStr, PushStruct, LoadField on heap h; vm has
\* current_instr_idx already advanced
ExecHeap(vm, ins, h) ==
    LET st == vm.stack IN
    CASE ins.op = "PushStr" ->
            LET a == Alloc(h, StrObj(ins.s))
            IN  [vm |-> Push(vm, Object(a.idx)), heap |-> a.heap]
      [] ins.op = "PushStruct" ->
            IF Len(st) < Len(ins.fs)
            THEN [vm |-> Fail(vm, "Stack underflow in PushStruct"), heap |-> h]
            ELSE LET a == Alloc(h, StructObj(ins.s,
                                   StructFields(ins.fs, TopN(st, Len(ins.fs)))))
                 IN  [vm |-> Push([vm EXCEPT !.stack = Below(st, Len(ins.fs))],
                                  Object(a.idx)),
                      heap |-> a.heap]
      [] ins.op = "LoadField" ->
            IF st = <<>>
            THEN [vm |-> Fail(vm, "Stack underflow in LoadField"), heap |-> h]
            ELSE LET val == st[Len(st)]
                     obj == HeapGet(h, val.v)
                 IN  IF val.tag # "Object"
                     THEN [vm |-> Fail(vm, "Cannot load field from non-object value"),
                           heap |-> h]
                     ELSE IF obj.kind # "Struct"
                     THEN [vm |-> Fail(vm, "Cannot load field from non-struct object"),
                           heap |-> h]
                     ELSE IF ins.s \notin DOMAIN obj.fields
                     THEN [vm |-> Fail(vm, "Field not found"), heap |-> h]
                     ELSE [vm |-> Push([vm EXCEPT !.stack = Below(st, 1)],
                                       obj.fields[ins.s]),
                           heap |-> h]

StepHeap(c) ==
    /\ Runnable(c)
    /\ StepKind(ctx[c]) = "heap"
    /\ LET r == ExecHeap(Advanced(Ticked(ctx[c])), CurInstr(ctx[c]),
                         HeapAfterTick(ctx[c])) IN
         /\ ctx' = [ctx EXCEPT ![c] = r.vm]
         /\ heap' = r.heap
         /\ mailbox' = MailboxAfter(mailbox, c, r.vm)
    /\ UNCHANGED <<restVars, scenario, registry, sentinel, deadlock_sent, sent>>

\* vm.rs:394-419: the registry after a Spawn by context `parent` of func_name
\* Mutant of the registration: next_id is not advanced
Register_SameId(reg, parent, func_name, args) ==
    LET id   == reg.next_id
        meta == ActorMetadata(id, func_name, args, parent)
        withChild == IF parent \in DOMAIN reg.actors
                     THEN [reg.actors EXCEPT ![parent].children = Append(@, id)]
                     ELSE reg.actors
    IN  [actors  |-> [a \in DOMAIN reg.actors \cup {id} |->
                         IF a = id THEN meta ELSE withChild[a]],
         next_id |-> id]

Register(reg, parent, func_name, args) ==
    LET id   == reg.next_id
        meta == ActorMetadata(id, func_name, args, parent)
        withChild == IF parent \in DOMAIN reg.actors
                     THEN [reg.actors EXCEPT ![parent].children = Append(@, id)]
                     ELSE reg.actors
    IN  [actors  |-> [a \in DOMAIN reg.actors \cup {id} |->
                         IF a = id THEN meta ELSE withChild[a]],
         next_id |-> id + 1]

\* vm.rs:387-454
StepSpawn(c) ==
    /\ Runnable(c)
    /\ StepKind(ctx[c]) = "spawn"
    /\ LET vm1 == Advanced(Ticked(ctx[c]))
           ins == CurInstr(ctx[c])
           id  == registry.next_id
       IN  IF Len(vm1.stack) < ins.i
           THEN /\ ctx' = [ctx EXCEPT ![c] = Fail(vm1, "Stack underflow in Spawn")]
                /\ mailbox' = CloseRx(mailbox, c)
                /\ UNCHANGED registry
           ELSE /\ registry' = Register(registry, ctx[c].current_actor_id, ins.s,
                                        TopN(vm1.stack, ins.i))
                /\ ctx' = [a \in DOMAIN ctx \cup {id} |->
                             IF a = id THEN NewVM(id, ins.s)
                             ELSE IF a = c
                                  THEN Push([vm1 EXCEPT !.stack = Below(@, ins.i)],
                                            Actor(id))
                                  ELSE ctx[a]]
                /\ mailbox' = [a \in DOMAIN mailbox \cup {id} |->
                                 IF a = id THEN Channel(TRUE, TRUE) ELSE mailbox[a]]
    /\ heap' = HeapAfterTick(ctx[c])
    /\ UNCHANGED <<restVars, scenario, sentinel, deadlock_sent, sent>>

\* vm.rs:455-466
StepSend(c) ==
    /\ Runnable(c)
    /\ StepKind(ctx[c]) = "send"
    /\ LET vm1 == Advanced(Ticked(ctx[c]))
           st  == vm1.stack
       IN  IF Len(st) < 2
           THEN /\ ctx' = [ctx EXCEPT ![c] = Fail(vm1, "Stack underflow in Send")]
                /\ mailbox' = CloseRx(mailbox, c)
                /\ UNCHANGED sent
           ELSE LET msg    == st[Len(st)]
                    target == st[Len(st) - 1]
                    vm2    == [vm1 EXCEPT !.stack = Below(st, 2)]
                IN  IF target.tag # "Actor"
                    THEN /\ ctx' = [ctx EXCEPT ![c] =
                                       Fail(vm2, "Cannot send to non-actor type")]
                         /\ mailbox' = CloseRx(mailbox, c)
                         /\ UNCHANGED sent
                    ELSE /\ ctx' = [ctx EXCEPT ![c] = vm2]
                         /\ IF target.v \in DOMAIN registry.actors
                            THEN /\ mailbox' =
                                      IF SendOk(mailbox, target.v)
                                      THEN [mailbox EXCEPT ![target.v].queue =
                                                               MailboxPush(@, msg)]
                                      ELSE mailbox
                                 /\ sent' = Append(sent,
                                       [from |-> c, to |-> target.v, msg |-> msg,
                                        delivered |-> SendOk(mailbox, target.v)])
                            ELSE UNCHANGED <<mailbox, sent>>
    /\ heap' = HeapAfterTick(ctx[c])
    /\ UNCHANGED <<restVars, scenario, registry, sentinel, deadlock_sent>>

\* vm.rs:467-469 and 513-517, 533-535: Receive up to the select
StepReceive(c) ==
    /\ Runnable(c)
    /\ StepKind(ctx[c]) = "receive"
    /\ LET vm1 == Advanced(Ticked(ctx[c])) IN
         IF mailbox[c].present
         THEN /\ ctx' = [ctx EXCEPT ![c] = [vm1 EXCEPT !.pc = "receiving"]]
              /\ registry' = SetActorStatus(registry, ctx[c].current_actor_id,
                                            "BlockedOnReceive")
              /\ UNCHANGED mailbox
         ELSE /\ ctx' = [ctx EXCEPT ![c] =
                            Fail(vm1, "Receive called outside of an actor")]
              /\ UNCHANGED <<registry, mailbox>>
    /\ heap' = HeapAfterTick(ctx[c])
    /\ UNCHANGED <<restVars, scenario, sentinel, deadlock_sent, sent>>

\* vm.rs:519-529: the select ends with a message
\* Mutant of recv: the message it returns stays in the queue
MailboxPop_Keep(queue) == queue

\* UnboundedReceiver::recv with a message queued: the head leaves the queue
MailboxPop(queue) == Tail(queue)

ReceiveMessage(c) ==
    /\ ctx[c].pc = "receiving"
    /\ mailbox[c].queue # <<>>
    /\ LET msg == Head(mailbox[c].queue) IN
         ctx' = [ctx EXCEPT ![c] = [Push(@, msg) EXCEPT !.pc = "running",
                                                        !.received = Append(@, msg)]]
    /\ mailbox' = [mailbox EXCEPT ![c].queue = MailboxPop(@)]
    /\ registry' = SetActorStatus(registry, ctx[c].current_actor_id, "Running")
    /\ UNCHANGED <<restVars, scenario, sentinel, deadlock_sent, sent, heap>>

\* vm.rs:519-531: recv() yields None: the queue is empty and no sender is left
ReceiveClosed(c) ==
    /\ ctx[c].pc = "receiving"
    /\ mailbox[c].queue = <<>>
    /\ ~mailbox[c].senders
    /\ ctx' = [ctx EXCEPT ![c] = Fail(@, "Actor mailbox closed")]
    /\ mailbox' = CloseRx(mailbox, c)
    /\ registry' = SetActorStatus(registry, ctx[c].current_actor_id, "Running")
    /\ UNCHANGED <<restVars, scenario, sentinel, deadlock_sent, sent, heap>>

\* vm.rs:521: the select ends with the deadlock signal
ReceiveDeadlock(c) ==
    /\ ctx[c].pc = "receiving"
    /\ ctx[c].deadlock_rx > 0
    /\ ctx' = [ctx EXCEPT ![c] = Fail(@, DeadlockError)]
    /\ mailbox' = CloseRx(mailbox, c)
    /\ UNCHANGED <<restVars, scenario, registry, sentinel, deadlock_sent, sent, heap>>

\* vm.rs:437-450: the task of actor a after its execute has returned
TaskExit(a) ==
    /\ ctx[a].current_actor_id # 0
    /\ ctx[a].pc = "returned"
    /\ ctx' = [ctx EXCEPT ![a].pc = "exited"]
    /\ registry' = SetActorStatus(registry, a,
                                  ExitStatus(ctx[a].result, registry.actors[a].status))
    /\ UNCHANGED <<restVars, scenario, mailbox, sentinel, deadlock_sent, sent, heap>>

\* vm.rs:200-214: an inspection that finds a deadlock: one send to every
\* subscribed receiver, and the sentinel ends
SentinelBroadcast ==
    /\ sentinel = "looping"
    /\ DeadlockDetected(registry)
    /\ deadlock_sent' = deadlock_sent + 1
    /\ ctx' = [c \in DOMAIN ctx |->
                 IF Subscribed(c) THEN [ctx[c] EXCEPT !.deadlock_rx = @ + 1] ELSE ctx[c]]
    /\ sentinel' = "exited"
    /\ UNCHANGED <<restVars, scenario, registry, mailbox, sent, heap>>

\* vm.rs:216-218: every actor is terminal: the sentinel ends
SentinelStop ==
    /\ sentinel = "looping"
    /\ Cardinality(DOMAIN registry.actors) # 0
    /\ ~DeadlockDetected(registry)
    /\ AllTerminal(registry)
    /\ sentinel' = "exited"
    /\ UNCHANGED <<restVars, scenario, ctx, registry, mailbox, deadlock_sent, sent, heap>>

\* vm.rs:205 and the end of the loop body: the sentinel sleeps again
SentinelContinue ==
    /\ sentinel = "looping"
    /\ \/ Cardinality(DOMAIN registry.actors) = 0
       \/ ~DeadlockDetected(registry) /\ ~AllTerminal(registry)
    /\ UNCHANGED <<restVars, scenario, ctx, registry, mailbox, sentinel, deadlock_sent, sent, heap>>

\* VM::new (vm.rs:148-165) and the root execute not yet polled
VmNew ==
    /\ ctx = [c \in {0} |-> NewVM(0, "main")]
    /\ registry = [actors |-> <<>>, next_id |-> 1]
    /\ mailbox = [c \in {0} |-> RootMailbox(scenario)]
    /\ sentinel = "none"
    /\ deadlock_sent = 0
    /\ sent = <<>>

InitVM ==
    /\ scenario \in Scenarios
    /\ VmNew

\* A VM that has been built and runs nothing
VmAtRest ==
    /\ scenario = "struct"
    /\ ctx = [c \in {0} |-> NewVM(0, "main")]
    /\ registry = [actors |-> <<>>, next_id |-> 1]
    /\ mailbox = [c \in {0} |-> RootMailbox(scenario)]
    /\ sentinel = "none"
    /\ deadlock_sent = 0
    /\ sent = <<>>

GcAtRest ==
    /\ heap = HeapNew
    /\ gc_in = [stack |-> <<>>, call_stack |-> <<>>, globals |-> EmptyMap]
    /\ gc_pre = HeapNew
    /\ gc_done = FALSE


(***************************************************************************)
(* SpecializedOpcode (optimizations.rs:17-43) and the BytecodeOptimizer    *)
(* (optimizations.rs:191-300).                                             *)
(***************************************************************************)
NoOpcode == Op("None", 0, "", <<>>)

\* A specialized opcode: g is the wrapped opcode of Generic
SOp(op, i, s, g) == [op |-> op, i |-> i, s |-> s, g |-> g]

Generic(opcode) == SOp("Generic", 0, "", opcode)

LoadLocalFast(slot) == SOp("LoadLocalFast", slot, "", NoOpcode)

StoreLocalFast(slot) == SOp("StoreLocalFast", slot, "", NoOpcode)

TailCall(name, argc) == SOp("TailCall", argc, name, NoOpcode)

PushSmallInt(n) == SOp("PushSmallInt", n, "", NoOpcode)

\* optimizations.rs:250-262: the specialized form of the binary opcodes
IntOpOf ==
    [o \in BinaryOps |->
        CASE o = "Add" -> "IntAdd" [] o = "Sub" -> "IntSub" [] o = "Mul" -> "IntMul"
          [] o = "Div" -> "IntDiv" [] o = "Lt" -> "IntLt"   [] o = "Gt" -> "IntGt"
          [] o = "Le" -> "IntLe"   [] o = "Ge" -> "IntGe"   [] o = "Eq" -> "IntEq"
          [] o = "Ne" -> "IntNe"]

IntOps == {IntOpOf[o] : o \in BinaryOps}

is_tail_call_OrLast(block, instr_idx) ==
    /\ instr_idx < Len(block.instructions)
    /\ block.instructions[instr_idx + 1].op = "Call"
    /\ \/ instr_idx + 1 >= Len(block.instructions)
       \/ block.instructions[instr_idx + 2].op = "Ret"

\* optimizations.rs:164-184; instr_idx counts from 0
is_tail_call(block, instr_idx) ==
    /\ instr_idx < Len(block.instructions)
    /\ block.instructions[instr_idx + 1].op = "Call"
    /\ instr_idx + 1 < Len(block.instructions)
    /\ block.instructions[instr_idx + 2].op = "Ret"

\* InlineCache::new (optimizations.rs:84-90)
InlineCacheNew ==
    [function_cache |-> EmptyMap, field_cache |-> EmptyMap, slot_cache |-> EmptyMap]

\* HashMap::get(..).copied(): Some(v) is <<v>>, None is <<>>
MapGet(m, k) == IF k \in DOMAIN m THEN <<m[k]>> ELSE <<>>

\* optimizations.rs:92-94; the Arc<SpecializedFunction> is the function's name
cache_function(c, call_site, func) ==
    [c EXCEPT !.function_cache = MapInsert(@, call_site, func)]

\* optimizations.rs:96-98
get_cached_function(c, call_site) == MapGet(c.function_cache, call_site)

\* optimizations.rs:100-102
cache_field(c, type_name, field_name, offset) ==
    [c EXCEPT !.field_cache = MapInsert(@, <<type_name, field_name>>, offset)]

\* optimizations.rs:104-106
get_cached_field(c, type_name, field_name) ==
    MapGet(c.field_cache, <<type_name, field_name>>)

\* optimizations.rs:108-110
cache_slot(c, var_name, slot) == [c EXCEPT !.slot_cache = MapInsert(@, var_name, slot)]

\* optimizations.rs:112-114
get_cached_slot(c, var_name) == MapGet(c.slot_cache, var_name)

\* BytecodeOptimizer::new (optimizations.rs:197-202); slot_cache is the
\* slot_cache of its inline_cache
OptimizerNew == [slot_cache |-> EmptyMap, call_site_counter |-> 0]

\* optimizations.rs:242-299: the optimizer after the instruction and the
\* specialized opcode
specialize_instruction(o, opcode, block, idx, param_slots) ==
    CASE opcode.op \in BinaryOps ->
            [opt |-> o, opcode |-> SOp(IntOpOf[opcode.op], 0, "", NoOpcode)]
      [] opcode.op = "LoadVar" ->
            [opt |-> o,
             opcode |-> IF opcode.s \in DOMAIN param_slots
                        THEN LoadLocalFast(param_slots[opcode.s])
                        ELSE IF opcode.s \in DOMAIN o.slot_cache
                        THEN LoadLocalFast(o.slot_cache[opcode.s])
                        ELSE Generic(opcode)]
      [] opcode.op = "StoreVar" ->
            LET next_slot == Cardinality(DOMAIN o.slot_cache)
                cache == IF opcode.s \in DOMAIN o.slot_cache THEN o.slot_cache
                         ELSE MapInsert(o.slot_cache, opcode.s, next_slot)
            IN  [opt |-> [o EXCEPT !.slot_cache = cache],
                 opcode |-> StoreLocalFast(cache[opcode.s])]
      [] opcode.op = "PushInt" /\ opcode.i >= -128 /\ opcode.i <= 127 ->
            [opt |-> o, opcode |-> PushSmallInt(opcode.i)]
      [] opcode.op = "Call" ->
            IF is_tail_call(block, idx)
            THEN [opt |-> o, opcode |-> TailCall(opcode.s, opcode.i)]
            ELSE [opt |-> [o EXCEPT !.call_site_counter = @ + 1],
                  opcode |-> Generic(opcode)]
      [] OTHER -> [opt |-> o, opcode |-> Generic(opcode)]

RECURSIVE SpecializeFrom(_, _, _, _)
\* optimizations.rs:231-234: the instructions from index idx on
SpecializeFrom(o, block, idx, param_slots) ==
    IF idx >= Len(block.instructions) THEN [opt |-> o, instructions |-> <<>>]
    ELSE LET r    == specialize_instruction(o, block.instructions[idx + 1], block, idx,
                                            param_slots)
             rest == SpecializeFrom(r.opt, block, idx + 1, param_slots)
         IN  [instructions |-> <<r.opcode>> \o rest.instructions, opt |-> rest.opt]

\* optimizations.rs:228-240
optimize_block(o, block, param_slots) ==
    LET r == SpecializeFrom(o, block, 0, param_slots)
    IN  [opt |-> r.opt, block |-> IRBlock(block.label, r.instructions)]

RECURSIVE OptimizeBlocks(_, _, _)
OptimizeBlocks(o, blocks, param_slots) ==
    IF blocks = <<>> THEN [opt |-> o, blocks |-> <<>>]
    ELSE LET r    == optimize_block(o, Head(blocks), param_slots)
             rest == OptimizeBlocks(r.opt, Tail(blocks), param_slots)
         IN  [blocks |-> <<r.block>> \o rest.blocks, opt |-> rest.opt]

RECURSIVE CacheParams(_, _, _)
\* optimizations.rs:206-209: slot idx for the parameter at idx, a later
\* parameter of the same name replacing an earlier one
CacheParams(m, params, idx) ==
    IF idx >= Len(params) THEN m
    ELSE CacheParams(MapInsert(m, params[idx + 1], idx), params, idx + 1)

\* optimizations.rs:204-226
optimize(o, func) ==
    LET param_slots == CacheParams(EmptyMap, func.params, 0)
        o1 == [o EXCEPT !.slot_cache = CacheParams(@, func.params, 0)]
        r  == OptimizeBlocks(o1, func.blocks, param_slots)
    IN  [opt |-> r.opt,
         func |-> [name |-> func.name, params |-> func.params,
                   param_slots |-> param_slots, blocks |-> r.blocks,
                   is_hot |-> FALSE, call_count |-> 0]]

RECURSIVE LoadSpecialized(_, _, _)
\* The loop of OptimizedVM::load_program (optimizations.rs:530-533)
LoadSpecialized(o, functions, ir_functions) ==
    IF ir_functions = <<>> THEN functions
    ELSE LET r == optimize(o, Head(ir_functions))
         IN  LoadSpecialized(r.opt, MapInsert(functions, Head(ir_functions).name, r.func),
                             Tail(ir_functions))

RECURSIVE OptimizerAfter(_, _)
\* The optimizer after the loop of OptimizedVM::load_program
OptimizerAfter(o, ir_functions) ==
    IF ir_functions = <<>> THEN o
    ELSE OptimizerAfter(optimize(o, Head(ir_functions)).opt, Tail(ir_functions))

(***************************************************************************)
(* The programs of SpecJit, as IRGenerator::generate (ir.rs:60-121) emits  *)
(* them.                                                                   *)
(***************************************************************************)
\* fn iter_sum(n) { let i = 0; let sum = 0; while i < n { sum = sum + i;
\* i = i + 1 }; return sum }  (tests/jit_benchmarks.rs:76-139)
IterSumFn ==
    IRFunction("iter_sum", <<"n">>,
        <<IRBlock("entry", <<PushInt(0), StoreVar("i"), PushInt(0), StoreVar("sum"),
                             Jmp("while_cond_0")>>),
          IRBlock("while_cond_0", <<LoadVar("i"), LoadVar("n"), Lt,
                                    JmpIfFalse("while_end_0")>>),
          IRBlock("while_body_0", <<LoadVar("sum"), LoadVar("i"), Add, StoreVar("sum"),
                                    LoadVar("i"), PushInt(1), Add, StoreVar("i"),
                                    Jmp("while_cond_0")>>),
          IRBlock("while_end_0", <<LoadVar("sum"), Ret>>)>>)

\* fn pick(a) { if a < 1 { 10 } else { 20 } }
PickFn ==
    IRFunction("pick", <<"a">>,
        <<IRBlock("entry", <<LoadVar("a"), PushInt(1), Lt, JmpIfFalse("else_0")>>),
          IRBlock("then_0", <<PushInt(10), Jmp("end_0")>>),
          IRBlock("else_0", <<PushInt(20), Jmp("end_0")>>),
          IRBlock("end_0", <<Ret>>)>>)

\* fn arith(a, b) { return (a + b) * 2 - a }
ArithFn ==
    IRFunction("arith", <<"a", "b">>,
        <<IRBlock("entry", <<LoadVar("a"), LoadVar("b"), Add, PushInt(2), Mul,
                             LoadVar("a"), Sub, Ret>>)>>)

\* fn flag(a) { return true }
FlagFn == IRFunction("flag", <<"a">>, <<IRBlock("entry", <<PushBool(TRUE), Ret>>)>>)

\* fn double(x) { return x + x }
DoubleFn ==
    IRFunction("double", <<"x">>, <<IRBlock("entry", <<LoadVar("x"), LoadVar("x"), Add, Ret>>)>>)

\* fn call(a) { return double(a) + 1 }
CallFn ==
    IRFunction("call", <<"a">>,
        <<IRBlock("entry", <<LoadVar("a"), Call("double", 1), PushInt(1), Add, Ret>>)>>)

\* fn tail(a) { return double(a) }
TailFn ==
    IRFunction("tail", <<"a">>, <<IRBlock("entry", <<LoadVar("a"), Call("double", 1), Ret>>)>>)

\* fn count(n) { if n < 1 { return 0 } return count(n - 1) }
CountFn ==
    IRFunction("count", <<"n">>,
        <<IRBlock("entry", <<LoadVar("n"), PushInt(1), Lt, JmpIfFalse("else_0")>>),
          IRBlock("then_0", <<PushInt(0), Ret, Jmp("end_0")>>),
          IRBlock("else_0", <<Jmp("end_0")>>),
          IRBlock("end_0", <<LoadVar("n"), PushInt(1), Sub, Call("count", 1), Ret>>)>>)

\* fn even(n) { if n < 1 { return 1 } return odd(n - 1) } and
\* fn odd(n) { if n < 1 { return 0 } return even(n - 1) }
ParityFn(name, other, base) ==
    IRFunction(name, <<"n">>,
        <<IRBlock("entry", <<LoadVar("n"), PushInt(1), Lt, JmpIfFalse("else_0")>>),
          IRBlock("then_0", <<PushInt(base), Ret, Jmp("end_0")>>),
          IRBlock("else_0", <<Jmp("end_0")>>),
          IRBlock("end_0", <<LoadVar("n"), PushInt(1), Sub, Call(other, 1), Ret>>)>>)

\* A function whose Call finds no argument on the stack
BareFn ==
    IRFunction("bare", <<"a">>, <<IRBlock("entry", <<Call("double", 1), Ret>>)>>)

\* A function whose JmpIfFalse has instructions after it in its block
MidFn ==
    IRFunction("mid", <<"a">>,
        <<IRBlock("entry", <<LoadVar("a"), PushInt(1), Lt, JmpIfFalse("else_0"),
                             PushInt(30), Ret>>),
          IRBlock("then_0", <<PushInt(10), Ret>>),
          IRBlock("else_0", <<PushInt(20), Ret>>)>>)

\* A function whose JmpIfFalse stands in the last block
LastFn ==
    IRFunction("last", <<"a">>,
        <<IRBlock("entry", <<Jmp("test_0")>>),
          IRBlock("else_0", <<PushInt(20), Ret>>),
          IRBlock("test_0", <<LoadVar("a"), PushInt(1), Lt, JmpIfFalse("else_0")>>)>>)

\* The number of variables of wide: one more than the JIT has variables
WideVars == 129

WideName(i) == "v" \o ToString(i)

\* fn let_i() { let v_i = 1; return v_i }, named `name`
LetFn(name, i) ==
    IRFunction(name, <<>>,
        <<IRBlock("entry", <<PushInt(1), StoreVar(WideName(i)), LoadVar(WideName(i)),
                             Ret>>)>>)

\* A program of WideVars functions with one variable each, wide the last
WideProgram ==
    [i \in 1..WideVars |-> LetFn(IF i = WideVars THEN "wide" ELSE WideName(i - 1), i - 1)]

\* What optimize makes of LetFn(name, i) when v_i is the i-th name stored
LetSpecialized(name, i) ==
    [name |-> name, params |-> <<>>, param_slots |-> EmptyMap,
     blocks |-> <<IRBlock("entry", <<PushSmallInt(1), StoreLocalFast(i), LoadLocalFast(i),
                                     Generic(Ret)>>)>>,
     is_hot |-> FALSE, call_count |-> 0]

JitPrograms == {"iter_sum", "pick", "arith", "flag", "call", "tail", "count",
                "even", "bare", "wide", "mid", "last"}

JitProgram(p) ==
    CASE p = "iter_sum" -> <<IterSumFn>>
      [] p = "pick"     -> <<PickFn>>
      [] p = "arith"    -> <<ArithFn>>
      [] p = "flag"     -> <<FlagFn>>
      [] p = "call"     -> <<DoubleFn, CallFn>>
      [] p = "tail"     -> <<DoubleFn, TailFn>>
      [] p = "count"    -> <<CountFn>>
      [] p = "even"     -> <<ParityFn("even", "odd", 1), ParityFn("odd", "even", 0)>>
      [] p = "bare"     -> <<DoubleFn, BareFn>>
      [] p = "wide"     -> WideProgram
      [] p = "mid"      -> <<MidFn>>
      [] p = "last"     -> <<LastFn>>

(***************************************************************************)
(* OptimizedVM (optimizations.rs:310-692): the context, execute and        *)
(* execute_function.  A call of execute_function is a frame; the frame of  *)
(* a Call keeps the locals it saved.                                       *)
(***************************************************************************)
HOT_THRESHOLD == 100

Panic(msg) == [kind |-> "panic", val |-> Unit, err |-> msg]

\* FastLocals::new (optimizations.rs:315-319)
FastLocalsNew(capacity) == [i \in 1..(IF capacity > 16 THEN capacity ELSE 16) |-> Unit]

\* FastLocals::set (optimizations.rs:327-332)
FastLocalsSet(slots, slot, value) ==
    [i \in 1..(IF slot >= Len(slots) THEN slot + 1 ELSE Len(slots)) |->
        IF i = slot + 1 THEN value ELSE IF i <= Len(slots) THEN slots[i] ELSE Unit]

RECURSIVE SetArgs(_, _, _)
\* optimizations.rs:538-540, 590-592, 641-643: slot idx gets argument idx
SetArgs(slots, args, idx) ==
    IF idx >= Len(args) THEN slots
    ELSE SetArgs(FastLocalsSet(slots, idx, args[idx + 1]), args, idx + 1)

\* OptimizedVM::new (optimizations.rs:521-527) with OptimizedContext::new
\* (344-351) and HotPathTracker::new (132-137); pc is the position of execute,
\* overflow_checks the setting of the build (on in the dev and test profiles)
OptimizedVMNew ==
    [functions |-> EmptyMap, optimizer |-> OptimizerNew, pc |-> "idle",
     overflow_checks |-> TRUE,
     stack |-> <<>>, locals |-> FastLocalsNew(32), frames |-> <<>>,
     call_counts |-> EmptyMap, hot_functions |-> <<>>, result |-> NoResult]

\* OptimizedVM::load_program (optimizations.rs:529-534): the optimizer of the
\* VM specializes every function and the result replaces a function of the
\* same name
load_program(vm, ir_functions) ==
    [vm EXCEPT !.functions = LoadSpecialized(vm.optimizer, @, ir_functions),
               !.optimizer = OptimizerAfter(@, ir_functions)]

\* load_program on a new VM
OvmLoaded(ir_functions) == load_program(OptimizedVMNew, ir_functions)

\* The OptimizedVM after load_program of the first n functions of WideProgram:
\* function i has been specialized with slot i for its variable
WideLoaded(n) ==
    [OptimizedVMNew EXCEPT
        !.functions = [name \in {WideName(i) : i \in 0..(n - 1)} |->
                          LetSpecialized(name, CHOOSE i \in 0..(n - 1) : WideName(i) = name)],
        !.optimizer.slot_cache =
            [name \in {WideName(i) : i \in 0..(n - 1)} |->
                CHOOSE i \in 0..(n - 1) : WideName(i) = name]]

\* The OptimizedVM of a program of SpecJit: load_program of its functions;
\* wide is loaded last, by a load_program of its own
JitLoaded(p) ==
    IF p = "wide"
    THEN load_program(WideLoaded(WideVars - 1), <<WideProgram[WideVars]>>)
    ELSE OvmLoaded(JitProgram(p))

\* execute_function has ended with res; an error ends every caller too
OvmFinish(vm, res) == [vm EXCEPT !.pc = "returned", !.result = res, !.frames = <<>>]

\* HotPathTracker::new (optimizations.rs:131-136)
HotPathTrackerNew == [call_counts |-> EmptyMap, hot_functions |-> <<>>]

\* HotPathTracker::get_call_count (optimizations.rs:154-156)
get_call_count(t, func_name) ==
    IF func_name \in DOMAIN t.call_counts THEN t.call_counts[func_name] ELSE 0

\* HotPathTracker::is_hot (optimizations.rs:150-152)
is_hot(t, func_name) == func_name \in SeqRange(t.hot_functions)

record_call_FromThreshold(t, func_name) ==
    LET count == get_call_count(t, func_name) + 1
        became_hot == count >= HOT_THRESHOLD
    IN  [tracker |-> [call_counts |-> MapInsert(t.call_counts, func_name, count),
                      hot_functions |-> IF became_hot
                                        THEN Append(t.hot_functions, func_name)
                                        ELSE t.hot_functions],
         became_hot |-> became_hot]

\* HotPathTracker::record_call (optimizations.rs:138-148): the tracker after
\* the call and the value returned
record_call(t, func_name) ==
    LET count == get_call_count(t, func_name) + 1
        became_hot == count = HOT_THRESHOLD /\ ~is_hot(t, func_name)
    IN  [tracker |-> [call_counts |-> MapInsert(t.call_counts, func_name, count),
                      hot_functions |-> IF became_hot
                                        THEN Append(t.hot_functions, func_name)
                                        ELSE t.hot_functions],
         became_hot |-> became_hot]

\* optimizations.rs:547-554: record_call on the tracker of the context and the
\* flag of the loaded function
RecordCall(vm, func_name) ==
    LET r == record_call([call_counts |-> vm.call_counts,
                          hot_functions |-> vm.hot_functions], func_name)
    IN  [vm EXCEPT !.call_counts = r.tracker.call_counts,
                   !.hot_functions = r.tracker.hot_functions,
                   !.functions = IF r.became_hot /\ func_name \in DOMAIN @
                                 THEN [@ EXCEPT ![func_name].is_hot = TRUE] ELSE @]

\* An activation of execute_function: restore is TRUE when it was called by
\* a Call (whose arm keeps saved_locals), tail is TRUE when it was called by
\* `return self.execute_function(callee_name)` of a TailCall
OvmFrame(func_name, restore, saved_locals) ==
    [func_name |-> func_name, block_idx |-> 0, instr_idx |-> 0,
     restore |-> restore, saved_locals |-> saved_locals, tail |-> FALSE]

OvmTailFrame(func_name) == [OvmFrame(func_name, FALSE, <<>>) EXCEPT !.tail = TRUE]

\* optimizations.rs:547-561: the head of execute_function, on the frames
\* `below` of its callers
OvmEnter(vm, below, frame) ==
    LET vm1 == RecordCall(vm, frame.func_name)
    IN  IF frame.func_name \notin DOMAIN vm.functions
        THEN OvmFinish(vm1, Err("Function not found"))
        ELSE [vm1 EXCEPT !.frames = Append(below, frame)]

RECURSIVE OvmReturn(_, _)
\* execute_function returns Ok(val): the caller of a Call restores its locals
\* and pushes the result (optimizations.rs:646-652); the activation that
\* made a TailCall returns the same result in its turn (optimizations.rs:602)
OvmReturn(vm, val) ==
    LET fr == vm.frames[Len(vm.frames)]
    IN  IF Len(vm.frames) = 1 THEN OvmFinish(vm, Ok(val))
        ELSE IF fr.tail THEN OvmReturn([vm EXCEPT !.frames = Below(@, 1)], val)
        ELSE Push([vm EXCEPT !.frames = Below(@, 1),
                             !.locals = IF fr.restore THEN fr.saved_locals ELSE @],
                  val)

OvmFail(vm, msg) == OvmFinish(vm, Err(msg))

OvmTopFrame(vm) == vm.frames[Len(vm.frames)]

OvmWithFrame(vm, fr) == [vm EXCEPT !.frames[Len(vm.frames)] = fr]

\* self.context.pop().unwrap_or(Value::Unit) followed by the return
OvmReturnTop(vm) ==
    IF vm.stack = <<>> THEN OvmReturn(vm, Unit)
    ELSE OvmReturn([vm EXCEPT !.stack = Below(@, 1)], vm.stack[Len(vm.stack)])

\* The payload of Value::Int is an i64.  The model gives it IntBits bits: the
\* integers I64_MIN..I64_MAX, far from every integer the programs of the
\* other specifications compute.
IntBits == 10

I64_MAX == 2 ^ (IntBits - 1) - 1

I64_MIN == -(2 ^ (IntBits - 1))

\* The two's complement value of n in IntBits bits
WrapI64(n) == ((n - I64_MIN) % (2 ^ IntBits)) + I64_MIN

\* The exact value of the i64 expressions `a + b`, `a - b`, `a * b`, `a / b`
ArithExact(op, a, b) ==
    CASE op = "IntAdd" -> a + b
      [] op = "IntSub" -> a - b
      [] op = "IntMul" -> a * b
      [] op = "IntDiv" -> TruncDiv(a, b)

\* The expression of the arm has no i64 value (b # 0 for IntDiv)
Overflows(op, a, b) ==
    /\ op \in {"IntAdd", "IntSub", "IntMul", "IntDiv"}
    /\ ArithExact(op, a, b) \notin I64_MIN..I64_MAX

\* Mutant of the integer arms: the operands taken in the order they are popped
IntArm_Swapped(op, a, b) ==
    CASE op = "IntAdd" -> VInt(WrapI64(b + a))
      [] op = "IntSub" -> VInt(WrapI64(b - a))
      [] op = "IntMul" -> VInt(WrapI64(b * a))
      [] op = "IntDiv" -> VInt(IF a = 0 THEN 0 ELSE WrapI64(TruncDiv(b, a)))
      [] op = "IntLt"  -> VBool(b < a)
      [] op = "IntGt"  -> VBool(b > a)
      [] op = "IntLe"  -> VBool(b <= a)
      [] op = "IntGe"  -> VBool(b >= a)
      [] op = "IntEq"  -> VBool(b = a)
      [] op = "IntNe"  -> VBool(b # a)

\* The value an integer arm of execute_specialized pushes (b # 0 for
\* IntDiv); an arithmetic result wraps where the build does not check it
IntArm(op, a, b) ==
    CASE op = "IntAdd" -> VInt(WrapI64(a + b))
      [] op = "IntSub" -> VInt(WrapI64(a - b))
      [] op = "IntMul" -> VInt(WrapI64(a * b))
      [] op = "IntDiv" -> VInt(TruncDiv(a, b))
      [] op = "IntLt"  -> VBool(a < b)
      [] op = "IntGt"  -> VBool(a > b)
      [] op = "IntLe"  -> VBool(a <= b)
      [] op = "IntGe"  -> VBool(a >= b)
      [] op = "IntEq"  -> VBool(a = b)
      [] op = "IntNe"  -> VBool(a # b)

\* OptimizedContext::execute_specialized (optimizations.rs:365-507)
execute_specialized(vm, o) ==
    LET st == vm.stack IN
    CASE o.op \in IntOps ->
            IF Len(st) < 2 THEN OvmFail([vm EXCEPT !.stack = <<>>], "Stack underflow")
            ELSE LET a   == st[Len(st) - 1]
                     b   == st[Len(st)]
                     vm1 == [vm EXCEPT !.stack = Below(st, 2)]
                 IN  IF a.tag # "Int" \/ b.tag # "Int" THEN OvmFail(vm1, "Type error")
                     ELSE IF o.op = "IntDiv" /\ b.v = 0
                     THEN OvmFail(vm1, "Division by zero")
                     ELSE IF /\ Overflows(o.op, a.v, b.v)
                             /\ (o.op = "IntDiv" \/ vm.overflow_checks)
                     THEN \* `a / b` panics on i64::MIN / -1 in every build,
                          \* `a + b`, `a - b`, `a * b` where overflow-checks is on
                          OvmFinish(vm1, Panic("arithmetic overflow"))
                     ELSE Push(vm1, IntArm(o.op, a.v, b.v))
      [] o.op = "LoadLocalFast" ->
            IF o.i >= Len(vm.locals) THEN OvmFinish(vm, Panic("index out of bounds"))
            ELSE Push(vm, vm.locals[o.i + 1])
      [] o.op = "StoreLocalFast" ->
            IF st = <<>> THEN OvmFail(vm, "Stack underflow")
            ELSE [vm EXCEPT !.stack = Below(st, 1),
                            !.locals = FastLocalsSet(@, o.i, st[Len(st)])]
      [] o.op = "PushSmallInt" -> Push(vm, VInt(o.i))
      [] OTHER -> vm

\* optimizations.rs:661-664 and 670-673
OvmJumpTo(vm, func, label) ==
    LET pos == LabelPosition(func, label)
    IN  IF pos < 0 THEN OvmFail(vm, "Label not found")
        ELSE OvmWithFrame(vm, [OvmTopFrame(vm) EXCEPT !.block_idx = pos, !.instr_idx = 0])

\* optimizations.rs:606-681: the Generic arm; vm has instr_idx already advanced
OvmGeneric(vm, func, g) ==
    LET st == vm.stack IN
    CASE g.op = "PushInt"  -> Push(vm, VInt(g.i))
      [] g.op = "PushBool" -> Push(vm, [tag |-> "Bool", v |-> g.i])
      [] g.op = "LoadVar"  ->
            \* the inline cache of the context is never filled
            IF g.s \in DOMAIN func.param_slots
            THEN IF func.param_slots[g.s] >= Len(vm.locals)
                 THEN OvmFinish(vm, Panic("index out of bounds"))
                 ELSE Push(vm, vm.locals[func.param_slots[g.s] + 1])
            ELSE OvmFail(vm, "Variable not found")
      [] g.op = "Call" ->
            IF Len(st) < g.i
            THEN OvmFail([vm EXCEPT !.stack = <<>>], "Stack underflow in Call")
            ELSE LET args == TopN(st, g.i)
                     vm1  == [vm EXCEPT !.stack = Below(st, g.i),
                                        !.locals = SetArgs(FastLocalsNew(Len(args)), args, 0)]
                 IN  OvmEnter(vm1, vm.frames, OvmFrame(g.s, TRUE, vm.locals))
      [] g.op = "Ret" -> OvmReturnTop(vm)
      [] g.op = "Jmp" -> OvmJumpTo(vm, func, g.s)
      [] g.op = "JmpIfFalse" ->
            IF st = <<>> THEN OvmFail(vm, "Stack underflow in JmpIfFalse")
            ELSE LET vm1 == [vm EXCEPT !.stack = Below(st, 1)]
                 IN  IF st[Len(st)] = VBool(FALSE) THEN OvmJumpTo(vm1, func, g.s)
                     ELSE vm1
      [] OTHER -> vm

\* optimizations.rs:580-604; vm has instr_idx already advanced.  A call of
\* the function itself restarts the loop of this activation; a call of
\* another function is a nested call of execute_function whose result this
\* activation returns.
OvmTailCall(vm, o) ==
    LET st == vm.stack
        fr == OvmTopFrame(vm)
    IN  IF Len(st) < o.i
        THEN OvmFail([vm EXCEPT !.stack = <<>>], "Stack underflow in TailCall")
        ELSE LET args == TopN(st, o.i)
                 vm1  == [vm EXCEPT !.stack = Below(st, o.i),
                                    !.locals = SetArgs(FastLocalsNew(Len(args)), args, 0)]
             IN  IF o.s = fr.func_name
                 THEN OvmWithFrame(vm1, [fr EXCEPT !.block_idx = 0, !.instr_idx = 0])
                 ELSE OvmEnter(vm1, vm.frames, OvmTailFrame(o.s))

\* optimizations.rs:563-690: one iteration of the loop of execute_function
OvmExec(vm) ==
    LET fr   == OvmTopFrame(vm)
        func == vm.functions[fr.func_name]
    IN  IF fr.block_idx >= Len(func.blocks) THEN OvmReturnTop(vm)
        ELSE LET block == func.blocks[fr.block_idx + 1] IN
             IF fr.instr_idx >= Len(block.instructions)
             THEN OvmWithFrame(vm, [fr EXCEPT !.block_idx = @ + 1, !.instr_idx = 0])
             ELSE LET o   == block.instructions[fr.instr_idx + 1]
                      vm1 == OvmWithFrame(vm, [fr EXCEPT !.instr_idx = @ + 1])
                  IN  CASE o.op = "TailCall" -> OvmTailCall(vm1, o)
                        [] o.op = "Generic"  -> OvmGeneric(vm1, func, o.g)
                        [] OTHER             -> execute_specialized(vm1, o)

(***************************************************************************)
(* JITCompiler::compile (jit.rs:42-225) and the code it builds.  The       *)
(* operand stack of the compiler is a build-time list that starts empty in *)
(* every block (jit.rs:83); the built code computes with the values that   *)
(* list names, so the stack of the native code below is that list at run   *)
(* time.  A declared variable that was never defined reads as 0.           *)
(***************************************************************************)
JIT_VARS == 128

\* cl_blocks.get(label): a later block of the same label replaces an earlier
ClBlock(func, label) ==
    LET hits == {i \in 1..Len(func.blocks) : func.blocks[i].label = label}
    IN  IF hits = {} THEN 0 ELSE CHOOSE i \in hits : \A j \in hits : j <= i

\* The opcodes that push one value computed from nothing (jit.rs:90-95)
IsConst(o) == o.op = "PushSmallInt" \/ (o.op = "Generic" /\ o.g.op = "PushInt")

RECURSIVE CompileFrom(_, _, _, _)
\* jit.rs:86-193: the lowering of block i (from 1) from instruction k (from 1)
\* on with `depth` values on the build-time stack: "" or the error
CompileFrom(func, i, k, depth) ==
    LET ins == func.blocks[i].instructions IN
    IF k > Len(ins) THEN ""
    ELSE LET o == ins[k] IN
         CASE IsConst(o) -> CompileFrom(func, i, k + 1, depth + 1)
           [] o.op = "LoadLocalFast" ->
                 IF o.i >= JIT_VARS THEN "panic"
                 ELSE CompileFrom(func, i, k + 1, depth + 1)
           [] o.op = "StoreLocalFast" ->
                 IF depth < 1 THEN "Stack underflow"
                 ELSE IF o.i >= JIT_VARS THEN "panic"
                 ELSE CompileFrom(func, i, k + 1, depth - 1)
           [] o.op \in IntOps ->
                 IF depth < 2 THEN "Stack underflow"
                 ELSE CompileFrom(func, i, k + 1, depth - 1)
           [] o.op = "Generic" /\ o.g.op = "Jmp" ->
                 IF ClBlock(func, o.g.s) = 0 THEN "Unknown label" ELSE ""
           [] o.op = "Generic" /\ o.g.op = "JmpIfFalse" ->
                 IF depth < 1 THEN "Stack underflow"
                 ELSE IF ClBlock(func, o.g.s) = 0 THEN "Unknown label"
                 ELSE IF i + 1 > Len(func.blocks) THEN "JmpIfFalse must have fallthrough"
                 ELSE ""
           [] o.op = "Generic" /\ o.g.op = "Ret" -> ""
           [] OTHER -> "JIT does not support opcode"

RECURSIVE CompileBlocks(_, _)
\* jit.rs:72-204: the blocks from i on, the first error ending the compilation
CompileBlocks(func, i) ==
    IF i > Len(func.blocks) THEN ""
    ELSE LET e == CompileFrom(func, i, 1, 0)
         IN  IF e # "" THEN e ELSE CompileBlocks(func, i + 1)

\* JITCompiler::compile: "" for Ok(code), else the error
Compile(func) ==
    IF ClBlock(func, "entry") = 0 THEN "No entry block found"
    ELSE CompileBlocks(func, 1)

\* The native function before compile and after it
NativeNew == [status |-> "none", err |-> "", block |-> 0, instr |-> 0,
              stack |-> <<>>, vars |-> <<>>, result |-> 0]

\* use_var of the built code: the last def_var on the path, else 0
UseVar(vars, idx) == IF idx + 1 <= Len(vars) THEN vars[idx + 1] ELSE 0

\* def_var of the built code
DefVar(vars, idx, val) ==
    [i \in 1..(IF idx + 1 > Len(vars) THEN idx + 1 ELSE Len(vars)) |->
        IF i = idx + 1 THEN val ELSE UseVar(vars, i - 1)]

NativeGoto(n, block) == [n EXCEPT !.block = block, !.instr = 1, !.stack = <<>>]

NativeReturn(n, val) == [n EXCEPT !.status = "returned", !.result = val, !.stack = <<>>]

\* iadd, isub, imul, sdiv and icmp with select(cmp, 1, 0); b # 0 for sdiv
NativeArith(op, a, b) ==
    CASE op = "IntAdd" -> a + b
      [] op = "IntSub" -> a - b
      [] op = "IntMul" -> a * b
      [] op = "IntDiv" -> TruncDiv(a, b)
      [] op = "IntLt"  -> IF a < b THEN 1 ELSE 0
      [] op = "IntGt"  -> IF a > b THEN 1 ELSE 0
      [] op = "IntLe"  -> IF a <= b THEN 1 ELSE 0
      [] op = "IntGe"  -> IF a >= b THEN 1 ELSE 0
      [] op = "IntEq"  -> IF a = b THEN 1 ELSE 0
      [] op = "IntNe"  -> IF a # b THEN 1 ELSE 0

\* One instruction of the code compile has built for func (jit.rs:89-203)
NativeExec(n, func) ==
    LET ins == func.blocks[n.block].instructions
        st  == n.stack
    IN  IF n.instr > Len(ins)
        THEN \* jit.rs:195-203: a block without terminator
             IF n.block + 1 <= Len(func.blocks) THEN NativeGoto(n, n.block + 1)
             ELSE NativeReturn(n, 0)
        ELSE LET o  == ins[n.instr]
                 n1 == [n EXCEPT !.instr = @ + 1]
             IN  CASE o.op = "PushSmallInt" -> [n1 EXCEPT !.stack = Append(st, o.i)]
                   [] o.op = "Generic" /\ o.g.op = "PushInt" ->
                         [n1 EXCEPT !.stack = Append(st, o.g.i)]
                   [] o.op = "LoadLocalFast" ->
                         [n1 EXCEPT !.stack = Append(st, UseVar(n.vars, o.i))]
                   [] o.op = "StoreLocalFast" ->
                         [n1 EXCEPT !.stack = Below(st, 1),
                                    !.vars = DefVar(@, o.i, st[Len(st)])]
                   [] o.op \in IntOps ->
                         IF o.op = "IntDiv" /\ st[Len(st)] = 0
                         THEN [n EXCEPT !.status = "trapped"]
                         ELSE [n1 EXCEPT !.stack =
                                 Append(Below(st, 2),
                                        NativeArith(o.op, st[Len(st) - 1], st[Len(st)]))]
                   [] o.op = "Generic" /\ o.g.op = "Jmp" ->
                         NativeGoto(n, ClBlock(func, o.g.s))
                   [] o.op = "Generic" /\ o.g.op = "JmpIfFalse" ->
                         \* brif(cond, next, target)
                         IF st[Len(st)] # 0 THEN NativeGoto(n, n.block + 1)
                         ELSE NativeGoto(n, ClBlock(func, o.g.s))
                   [] o.op = "Generic" /\ o.g.op = "Ret" ->
                         NativeReturn(n, IF st = <<>> THEN 0 ELSE st[Len(st)])

\* An OptimizedVM and a JITCompiler that have been built and run nothing
JitAtRest ==
    /\ jit_prog = "arith"
    /\ jit_args = <<0, 0>>
    /\ ovm = OptimizedVMNew
    /\ nat = NativeNew

\* A HotPathTracker nobody has called and an OptimizedVM nobody has loaded
HotAtRest ==
    hot = [tracker |-> HotPathTrackerNew, trues |-> EmptyMap,
           last |-> [name |-> "", ret |-> FALSE], execs |-> 0, loads |-> 0]

\* A new BytecodeOptimizer that has specialized nothing
OptAtRest == opz = [optimizer |-> OptimizerNew, results |-> {}, steps |-> 0]

\* A new InlineCache
CacheAtRest == icache = [cache |-> InlineCacheNew, first |-> InlineCacheNew]

\* A function without blocks, not specialized
TailAtRest ==
    tcall = [func |-> IRFunction("t", <<>>, <<>>), blocks |-> <<>>, tail |-> {},
             done |-> FALSE]

\* OptimizedContext::new (optimizations.rs:344-351), nothing executed
CtxAtRest ==
    octx = [vm |-> OptimizedVMNew, pre |-> <<>>, op |-> SOp("None", 0, "", NoOpcode),
            ret |-> NoResult, done |-> FALSE]

\* No program of scenario "probe"
ProbeAtRest == probe = [pre |-> <<>>, ops |-> <<>>]

GenAtRest ==
    gen = [ast |-> [node |-> "None", val |-> 0, name |-> "", kids |-> <<>>],
           temp_counter |-> 0, ir |-> <<>>, spec |-> <<>>]

\* BorrowChecker::new (borrow_checker.rs:23-27), nothing called
BcAtRest ==
    bc = [borrow_stack |-> <<EmptyMap>>, before |-> <<EmptyMap>>,
          call |-> [fn |-> "none"], ret |-> "none", calls |-> 0]

AuxAtRest ==
    HotAtRest /\ OptAtRest /\ CacheAtRest /\ TailAtRest /\ CtxAtRest /\ ProbeAtRest
    /\ GenAtRest /\ BcAtRest

(***************************************************************************)
(* Spec: the baseline VM on the programs of Scenarios, every interleaving  *)
(* of the contexts, the task wrappers and the sentinel.                    *)
(***************************************************************************)
Init ==
    /\ InitVM
    /\ GcAtRest
    /\ JitAtRest
    /\ AuxAtRest

Next ==
    \/ \E c \in DOMAIN ctx : Start(c)
    \/ \E c \in DOMAIN ctx : AbortOnDeadlock(c)
    \/ \E c \in DOMAIN ctx : StepLocal(c)
    \/ \E c \in DOMAIN ctx : StepReturn(c)
    \/ \E c \in DOMAIN ctx : StepHeap(c)
    \/ \E c \in DOMAIN ctx : StepSpawn(c)
    \/ \E c \in DOMAIN ctx : StepSend(c)
    \/ \E c \in DOMAIN ctx : StepReceive(c)
    \/ \E c \in DOMAIN ctx : ReceiveMessage(c)
    \/ \E c \in DOMAIN ctx : ReceiveClosed(c)
    \/ \E c \in DOMAIN ctx : ReceiveDeadlock(c)
    \/ \E c \in DOMAIN ctx : TaskExit(c)
    \/ SentinelBroadcast
    \/ SentinelStop
    \/ SentinelContinue

vars == <<heap, vmVars, gcVars, jitVars, auxVars>>

Spec == Init /\ [][Next]_vars

(***************************************************************************)
(* SpecGc: Heap::gc as a function of the heap and the roots.  The heap and *)
(* the roots are drawn from every well-formed heap of at most HeapSlots    *)
(* slots (the mark bits are whatever the last cycle left) and the one      *)
(* action applies Heap::gc.                                                *)
(***************************************************************************)
HeapSlots == 2

\* The values a field or a root may hold in a heap of n slots
GcValues(n) == {VInt(1)} \cup {Object(i) : i \in 0..(n - 1)}

GcObjects(n) ==
    {NoneObj, StrObj("s")} \cup {StructObj("Node", [next |-> val]) : val \in GcValues(n)}

GcHeaps ==
    UNION {
      {[objects   |-> objs,
        marked    |-> mk,
        free_list |-> SetToSeq({i \in 0..(n - 1) : objs[i + 1].kind = "None"})] :
          objs \in [1..n -> GcObjects(n)], mk \in [1..n -> BOOLEAN]} :
      n \in 0..HeapSlots}

GcFrame(locals) ==
    [func_name |-> "main", current_block_idx |-> 0, current_instr_idx |-> 0,
     locals |-> locals]

GcMaps(n, key) == {EmptyMap} \cup {[k \in {key} |-> val] : val \in GcValues(n)}

GcInputs(n) ==
    {[stack |-> st, call_stack |-> <<GcFrame(loc)>>, globals |-> gl] :
        st  \in {<<>>} \cup {<<val>> : val \in GcValues(n)},
        loc \in GcMaps(n, "x"),
        gl  \in GcMaps(n, "g")}

InitGc ==
    /\ VmAtRest
    /\ JitAtRest
    /\ AuxAtRest
    /\ heap \in GcHeaps
    /\ gc_in \in GcInputs(Len(heap.objects))
    /\ gc_pre = heap
    /\ gc_done = FALSE

GcCall ==
    /\ ~gc_done
    /\ heap' = Gc(heap, gc_in.stack, gc_in.call_stack, gc_in.globals)
    /\ gc_pre' = heap
    /\ gc_done' = TRUE
    /\ UNCHANGED <<gc_in, vmVars, jitVars, auxVars>>

NextGc == GcCall

SpecGc == InitGc /\ [][NextGc]_vars

\* The indices a set of values names
ObjectIndices(vals) == {val.v : val \in {w \in vals : w.tag = "Object"}}

RECURSIVE ReachFrom(_, _)
\* The least set of indices that holds S and, with an occupied struct, the
\* indices its fields name
ReachFrom(objects, S) ==
    LET step == S \cup UNION {ObjectIndices({objects[i + 1].fields[f] :
                                              f \in DOMAIN objects[i + 1].fields}) :
                              i \in {j \in S : objects[j + 1].kind = "Struct"}}
    IN  IF step = S THEN S ELSE ReachFrom(objects, step)

GcReachable ==
    ReachFrom(gc_pre.objects,
              ObjectIndices(SeqRange(GcRoots(gc_in.stack, gc_in.call_stack, gc_in.globals))))

\* C2: after Heap::gc every slot reachable from a root through struct fields
\* (cycles included) is occupied with the contents it had, and every occupied
\* slot that was not reachable is empty and its index is on the free list.
C2_GcKeepsReachableFreesRest ==
    gc_done =>
      /\ Len(heap.objects) = Len(gc_pre.objects)
      /\ \A i \in 0..(Len(gc_pre.objects) - 1) :
            gc_pre.objects[i + 1].kind # "None" =>
              IF i \in GcReachable
              THEN heap.objects[i + 1] = gc_pre.objects[i + 1]
              ELSE /\ heap.objects[i + 1] = NoneObj
                   /\ i \in SeqRange(heap.free_list)

\* A collection that kept a two-object cycle reachable from the stack
C2_Witness_CycleKept ==
    /\ gc_done
    /\ Len(gc_pre.objects) = 2
    /\ gc_in.stack = <<Object(0)>>
    /\ gc_pre.objects[1] = StructObj("Node", [next |-> Object(1)])
    /\ gc_pre.objects[2] = StructObj("Node", [next |-> Object(0)])
    /\ heap.objects = gc_pre.objects

(***************************************************************************)
(* SpecJit: one function of one program, interpreted by the OptimizedVM    *)
(* and compiled and run as native code, on the same integer arguments.     *)
(***************************************************************************)
\* The arguments are integers of -JitMaxArg..JitMaxArg
JitMaxArg == 2

JitEntry == ovm.functions[jit_prog]

RECURSIVE ArgLists(_)
ArgLists(n) ==
    IF n = 0 THEN {<<>>}
    ELSE {Append(l, a) : l \in ArgLists(n - 1), a \in (-JitMaxArg)..JitMaxArg}

\* OptimizedVM::execute (optimizations.rs:536-543) up to the loop of
\* execute_function
OvmExecute ==
    /\ ovm.pc = "idle"
    /\ ovm' = OvmEnter([ovm EXCEPT !.pc = "running",
                                   !.locals = SetArgs(@, [i \in 1..Len(jit_args) |->
                                                             VInt(jit_args[i])], 0)],
                       <<>>, OvmFrame(jit_prog, FALSE, <<>>))
    /\ UNCHANGED <<jit_prog, jit_args, nat, heap, vmVars, gcVars, auxVars>>

OvmStep ==
    /\ ovm.pc = "running"
    /\ ovm' = OvmExec(ovm)
    /\ UNCHANGED <<jit_prog, jit_args, nat, heap, vmVars, gcVars, auxVars>>

\* JITCompiler::compile
JitCompile ==
    /\ nat.status = "none"
    /\ LET e == Compile(JitEntry) IN
         nat' = [nat EXCEPT !.status = IF e = "" THEN "ready"
                                      ELSE IF e = "panic" THEN "panicked"
                                      ELSE "compile_error",
                            !.err = e]
    /\ UNCHANGED <<jit_prog, jit_args, ovm, heap, vmVars, gcVars, auxVars>>

\* A call of the compiled code: parameter idx is variable idx (jit.rs:76-81)
NativeCall ==
    /\ nat.status = "ready"
    /\ nat' = [NativeGoto(nat, 1) EXCEPT !.status = "running", !.vars = jit_args]
    /\ UNCHANGED <<jit_prog, jit_args, ovm, heap, vmVars, gcVars, auxVars>>

NativeStep ==
    /\ nat.status = "running"
    /\ nat' = NativeExec(nat, JitEntry)
    /\ UNCHANGED <<jit_prog, jit_args, ovm, heap, vmVars, gcVars, auxVars>>

InitJit ==
    /\ jit_prog \in JitPrograms
    /\ ovm = JitLoaded(jit_prog)
    /\ jit_args \in ArgLists(Len(JitEntry.params))
    /\ nat = NativeNew
    /\ VmAtRest
    /\ GcAtRest
    /\ AuxAtRest

NextJit ==
    \/ OvmExecute
    \/ OvmStep
    \/ JitCompile
    \/ NativeCall
    \/ NativeStep

SpecJit == InitJit /\ [][NextJit]_vars

\* The i64 the native code returns for a value of the interpreter
ToNative(val) == IF val.tag \in {"Int", "Bool"} THEN val.v ELSE 0

\* C3: for every function of the compilable opcode subset and all integer
\* arguments, when the interpreter returns a value and the compiled code
\* returns, the two values are equal (a boolean as 0/1), also when a value is
\* left on the operand stack in one block and used in another.
C3_NativeAgreesWithInterpreter ==
    (/\ nat.status = "returned"
     /\ ovm.pc = "returned"
     /\ ovm.result.kind = "ok")
        => nat.result = ToNative(ovm.result.val)

(***************************************************************************)
(* Properties of the baseline VM.                                          *)
(***************************************************************************)
\* A context whose execute has begun and not returned
Live(c) == ctx[c].pc \in {"running", "receiving"}

\* The values a context holds on its operand stack and in its locals
HeldValues(vm) == SeqRange(vm.stack) \cup SeqRange(FrameValues(vm.call_stack))

\* The values that sit undelivered in some mailbox
QueuedValues == UNION {SeqRange(mailbox[c].queue) : c \in DOMAIN mailbox}

Occupied(i) == i < Len(heap.objects) /\ heap.objects[i + 1].kind # "None"

\* C1: with one heap shared by the root and the actors, every Object(i) held on
\* the operand stack or in the locals of any live context, or in an undelivered
\* message, refers to an occupied slot: no context's GC cycle frees an object
\* another context still holds.
C1_SharedHeapObjectsStayLive ==
    \A i \in ObjectIndices(QueuedValues
                           \cup UNION {HeldValues(ctx[c]) : c \in {d \in DOMAIN ctx : Live(d)}}) :
        Occupied(i)

StatusEdges ==
    {<<"Running", "BlockedOnReceive">>, <<"BlockedOnReceive", "Running">>,
     <<"Running", "Stopped">>, <<"Running", "Failed">>,
     <<"BlockedOnReceive", "Failed">>}

\* C4: in every step the registry status of every actor either stays or moves
\* along one of the edges Running -> BlockedOnReceive, BlockedOnReceive ->
\* Running, Running -> Stopped, Running -> Failed, BlockedOnReceive -> Failed;
\* a new actor starts Running, and Stopped and Failed are never left.
C4_StatusStateMachine ==
    [][\A a \in DOMAIN registry'.actors :
          IF a \in DOMAIN registry.actors
          THEN \/ registry'.actors[a].status = registry.actors[a].status
               \/ <<registry.actors[a].status, registry'.actors[a].status>> \in StatusEdges
          ELSE registry'.actors[a].status = "Running"]_vars

\* An actor has gone through Running -> Blocked -> Running -> Stopped and another
\* through Blocked -> Failed
C4_Witness_AllEdges ==
    /\ scenario = "fifo"
    /\ DOMAIN registry.actors = {1, 2}
    /\ registry.actors[2].status = "Stopped"
    /\ Len(ctx[2].received) = 1
    /\ registry.actors[1].status = "Failed"
    /\ ctx[1].result = Err(DeadlockError)

RECURSIVE SentTo(_, _, _)
\* The messages context s has sent to actor r, in the order of the Sends
SentTo(log, s, r) ==
    IF log = <<>> THEN <<>>
    ELSE (IF Head(log).from = s /\ Head(log).to = r THEN <<Head(log).msg>> ELSE <<>>)
         \o SentTo(Tail(log), s, r)

RECURSIVE Restrict(_, _)
\* The subsequence of seq of the elements in S
Restrict(seq, S) ==
    IF seq = <<>> THEN <<>>
    ELSE (IF Head(seq) \in S THEN <<Head(seq)>> ELSE <<>>) \o Restrict(Tail(seq), S)

IsPrefix(p, s) == Len(p) <= Len(s) /\ \A i \in 1..Len(p) : p[i] = s[i]

\* C5: for every sender s and receiver r, the messages r has received from s
\* are, in the order r received them, an initial part of the messages s sent
\* to r in send order, whatever the other senders did in between.  (The
\* messages of the programs are pairwise different, so a received message
\* names its Send.)
C5_MailboxFifoPerSender ==
    \A r \in DOMAIN ctx : \A s \in DOMAIN ctx :
        IsPrefix(Restrict(ctx[r].received, SeqRange(SentTo(sent, s, r))),
                 SentTo(sent, s, r))

\* The sink has received main's 1 and 2 with the relay's 3 in between
C5_Witness_Interleaved ==
    /\ scenario = "fifo"
    /\ 1 \in DOMAIN ctx
    /\ ctx[1].received = <<VInt(1), VInt(3), VInt(2)>>

C7_PingCompletesNormally ==
    scenario = "ping" =>
        /\ ctx[0].pc = "returned" => ctx[0].result.kind = "ok"
        /\ \A a \in DOMAIN registry.actors : registry.actors[a].status # "Failed"

\* C8: the sentinel broadcasts only in a step taken from a state in which the
\* registry is not empty, no registered actor is Running (each is
\* BlockedOnReceive, Stopped or Failed) and at least one is BlockedOnReceive.
C8_BroadcastOnlyWhenAllBlockedOrTerminal ==
    [][deadlock_sent' # deadlock_sent =>
          /\ DOMAIN registry.actors # {}
          /\ \A a \in DOMAIN registry.actors :
                registry.actors[a].status \in {"BlockedOnReceive", "Stopped", "Failed"}
          /\ \E a \in DOMAIN registry.actors :
                registry.actors[a].status = "BlockedOnReceive"]_vars

\* The signal has been broadcast with one actor blocked beside a stopped one
C8_Witness_Broadcast ==
    /\ deadlock_sent = 1
    /\ \E a \in DOMAIN registry.actors : registry.actors[a].status = "Stopped"
    /\ \E a \in DOMAIN registry.actors : registry.actors[a].status = "BlockedOnReceive"

\* No context can take a step of its own and no message is under way: each has
\* returned or waits in Receive on an empty mailbox whose senders are alive
NoMessageWillArrive ==
    \A c \in DOMAIN ctx :
        \/ ctx[c].pc \in {"returned", "exited"}
        \/ ctx[c].pc = "receiving" /\ mailbox[c].queue = <<>> /\ mailbox[c].senders

Deadlocked ==
    /\ NoMessageWillArrive
    /\ \A a \in DOMAIN registry.actors :
          registry.actors[a].status \in {"BlockedOnReceive", "Stopped", "Failed"}
    /\ \E a \in DOMAIN registry.actors : registry.actors[a].status = "BlockedOnReceive"

\* Every Receive that was waiting has ended with the deadlock error
WaitersAborted ==
    /\ deadlock_sent > 0
    /\ \A c \in DOMAIN ctx :
          /\ ctx[c].pc # "receiving"
          /\ ctx[c].pc \in {"returned", "exited"}

\* C9: whenever every actor is BlockedOnReceive or terminal, at least one is
\* BlockedOnReceive and no message will arrive, the deadlock signal is
\* eventually broadcast and no Receive stays waiting, also for an actor
\* spawned after all earlier actors have terminated.
C9_DeadlockEventuallySignalled == Deadlocked ~> WaitersAborted

\* C10: an actor whose execute has returned an error is Failed once its task
\* has ended; in the program of test_actor_failure_reporting the root never
\* waits and its execute returns Ok; and the step that marks the actor leaves
\* every other context and every other actor's status as they were.
C10_ErrorMarksFailedOnly ==
    /\ [](/\ \A a \in DOMAIN registry.actors :
              (ctx[a].pc = "exited" /\ ctx[a].result.kind = "err")
                  => registry.actors[a].status = "Failed"
          /\ scenario = "crash" =>
                /\ ctx[0].pc # "receiving"
                /\ ctx[0].pc = "returned" => ctx[0].result = Ok(Unit))
    /\ [][\A a \in DOMAIN registry.actors :
             (registry.actors[a].status # "Failed" /\ registry'.actors[a].status = "Failed")
                 => /\ \A c \in DOMAIN ctx \ {a} : ctx'[c] = ctx[c]
                    /\ \A b \in DOMAIN registry.actors \ {a} :
                          registry'.actors[b].status = registry.actors[b].status]_vars

\* The crashing actor is Failed with the division error and the root has
\* returned Ok
C10_Witness_ChildFailedParentOk ==
    /\ scenario = "crash"
    /\ 1 \in DOMAIN registry.actors
    /\ registry.actors[1].status = "Failed"
    /\ ctx[1].pc = "exited"
    /\ ctx[1].result = Err("Division by zero")
    /\ ctx[0].pc = "returned"
    /\ ctx[0].result = Ok(Unit)

\* The programs in which a Receive can wait: gc_reuse runs the root alone, it
\* spawns nothing and receives nothing, so Deadlocked never holds in it
FairScenarios == Scenarios \ {"gc_reuse"}

FairInit == Init /\ scenario \in FairScenarios

\* Every task, and the sentinel, is polled by the tokio runtime for as long as
\* it can run (vm.rs:197-222, 388-436)
FairSpec == FairInit /\ [][Next]_vars /\ WF_vars(Next)

(***************************************************************************)
(* Spawn arguments and Send (vm.rs:387-466).                               *)
(***************************************************************************)
\* C11: the actor spawned by `PushInt 7; Spawn Echo 1` runs Echo with 7 bound
\* to its parameter x, so that its `LoadVar x; Ret` ends with Ok(7).
C11_SpawnArgsBoundToParams ==
    (scenario = "spawn_args" /\ 1 \in DOMAIN ctx
                             /\ ctx[1].pc \in {"returned", "exited"})
        => ctx[1].result = Ok(VInt(7))

\* the execute future of actor id has not returned: its receiver is alive
LiveActor(id) ==
    id \in DOMAIN ctx /\ ctx[id].pc \in {"unstarted", "running", "receiving"}

\* this step is an iteration of context c's loop that executes a Send with
\* both operands on the stack
SendStep(c) ==
    /\ Runnable(c)
    /\ StepKind(ctx[c]) = "send"
    /\ ctx'[c].gc_timer # ctx[c].gc_timer
    /\ Len(ctx[c].stack) >= 2

SenderContinues(c) ==
    /\ ctx'[c].pc = "running"
    /\ ctx'[c].result = NoResult
    /\ ctx'[c].stack = Below(ctx[c].stack, 2)

\* C12: a Send pops the message and the target and goes on in the same step:
\* to a live actor the message is appended to the actor's mailbox, to a
\* Stopped or Failed actor no mailbox changes and the sender continues without
\* an error, and with a target that is no Actor value the sender's execute
\* returns an error.
C12_SendAppendsDropsOrFails ==
    [][\A c \in DOMAIN ctx : SendStep(c) =>
          LET st     == ctx[c].stack
              msg    == st[Len(st)]
              target == st[Len(st) - 1]
          IN  IF target.tag = "Actor"
              THEN /\ SenderContinues(c)
                   /\ (target.v \in DOMAIN registry.actors /\ LiveActor(target.v))
                          => mailbox' = [mailbox EXCEPT ![target.v].queue =
                                                            Append(@, msg)]
                   /\ (target.v \in DOMAIN registry.actors
                         /\ registry.actors[target.v].status \in {"Stopped", "Failed"})
                          => mailbox' = mailbox
              ELSE /\ ctx'[c].pc = "returned"
                   /\ ctx'[c].result = Err("Cannot send to non-actor type")
      ]_vars

\* main has sent 5 to the actor that had already stopped, has gone on, and has
\* then failed on the Send whose target is the integer 1
C12_Witness_DroppedThenNonActor ==
    /\ scenario = "send_cases"
    /\ Len(sent) = 1
    /\ sent[1] = [from |-> 0, to |-> 1, msg |-> VInt(5), delivered |-> FALSE]
    /\ registry.actors[1].status = "Stopped"
    /\ ctx[0].pc = "returned"
    /\ ctx[0].result = Err("Cannot send to non-actor type")

(***************************************************************************)
(* SpecHot: a HotPathTracker (optimizations.rs:125-157) under every        *)
(* sequence of record_call calls for the names of HotNames, up to HotExtra *)
(* calls beyond the threshold for each name.  hot.trues counts, per name,  *)
(* the calls that returned true; hot.last is the last call and its result. *)
(***************************************************************************)
HotExtra == 2

HotNames == {"f", "g"}

TruesOf(name) == IF name \in DOMAIN hot.trues THEN hot.trues[name] ELSE 0

HotRecordCall(name) ==
    /\ get_call_count(hot.tracker, name) < HOT_THRESHOLD + HotExtra
    /\ LET r == record_call(hot.tracker, name) IN
         hot' = [hot EXCEPT !.tracker = r.tracker,
                            !.trues = MapInsert(hot.trues, name,
                                         TruesOf(name) + IF r.became_hot THEN 1 ELSE 0),
                            !.last = [name |-> name, ret |-> r.became_hot]]
    /\ UNCHANGED <<heap, vmVars, gcVars, jitVars, opz, icache, tcall, octx, probe, gen, bc>>

InitHot ==
    /\ VmAtRest
    /\ GcAtRest
    /\ JitAtRest
    /\ AuxAtRest

NextHot == \E name \in HotNames : HotRecordCall(name)

SpecHot == InitHot /\ [][NextHot]_vars

\* C13: for every name, whatever calls for other names came in between,
\* record_call has returned true once if the name's count has reached
\* HOT_THRESHOLD and never otherwise, the call that returned true is the one
\* that made the count equal to HOT_THRESHOLD, is_hot(name) holds exactly from
\* that call on, and a name never recorded is not hot.
C13_HotExactlyOnceAtThreshold ==
    /\ \A name \in HotNames :
          LET count == get_call_count(hot.tracker, name) IN
            /\ TruesOf(name) = IF count >= HOT_THRESHOLD THEN 1 ELSE 0
            /\ is_hot(hot.tracker, name) <=> count >= HOT_THRESHOLD
            /\ hot.last.name = name => (hot.last.ret <=> count = HOT_THRESHOLD)
    /\ ~is_hot(hot.tracker, "never")
    /\ get_call_count(hot.tracker, "never") = 0

\* f became hot on its 100th call, has been called again since, and g, called
\* in between, is still one call short of the threshold
C13_Witness_PastThreshold ==
    /\ get_call_count(hot.tracker, "f") = HOT_THRESHOLD + 1
    /\ get_call_count(hot.tracker, "g") = HOT_THRESHOLD - 1
    /\ hot.last = [name |-> "f", ret |-> FALSE]
    /\ TruesOf("f") = 1
    /\ is_hot(hot.tracker, "f")
    /\ ~is_hot(hot.tracker, "g")

(***************************************************************************)
(* SpecHotVm: an OptimizedVM on which load_program (of the one function f) *)
(* and execute("f") are called in every order, at most MaxLoads loads.     *)
(* hot.execs counts the executions of f that found it loaded.              *)
(***************************************************************************)
MaxLoads == 2

\* fn f() { 1 }
HotFn == IRFunction("f", <<>>, <<IRBlock("entry", <<PushInt(1), Ret>>)>>)

RECURSIVE OvmRun(_)
\* execute_function to its return
OvmRun(vm) == IF vm.pc = "running" THEN OvmRun(OvmExec(vm)) ELSE vm

\* OptimizedVM::load_program (optimizations.rs:529-534)
HotVmLoad ==
    /\ hot.loads < MaxLoads
    /\ ovm' = load_program(ovm, <<HotFn>>)
    /\ hot' = [hot EXCEPT !.loads = @ + 1]
    /\ UNCHANGED <<jit_prog, jit_args, nat, heap, vmVars, gcVars, opz, icache, tcall, octx, probe, gen, bc>>

\* OptimizedVM::execute("f", vec![]) (optimizations.rs:536-543), to its return
HotVmExecute ==
    /\ (IF "f" \in DOMAIN ovm.call_counts THEN ovm.call_counts["f"] ELSE 0)
          < HOT_THRESHOLD + HotExtra
    /\ ovm' = OvmRun(OvmEnter([ovm EXCEPT !.pc = "running"], <<>>,
                              OvmFrame("f", FALSE, <<>>)))
    /\ hot' = [hot EXCEPT !.execs = @ + IF "f" \in DOMAIN ovm.functions THEN 1 ELSE 0]
    /\ UNCHANGED <<jit_prog, jit_args, nat, heap, vmVars, gcVars, opz, icache, tcall, octx, probe, gen, bc>>

InitHotVm ==
    /\ VmAtRest
    /\ GcAtRest
    /\ JitAtRest
    /\ AuxAtRest

NextHotVm ==
    \/ HotVmLoad
    \/ HotVmExecute

SpecHotVm == InitHotVm /\ [][NextHotVm]_vars

\* C14: the SpecializedFunction of the loaded function f has is_hot = true
\* once f has been executed HOT_THRESHOLD times through the OptimizedVM, and
\* is_hot = false before.
C14_LoadedFunctionHotAfterThreshold ==
    "f" \in DOMAIN ovm.functions =>
        (ovm.functions["f"].is_hot <=> hot.execs >= HOT_THRESHOLD)

(***************************************************************************)
(* SpecOpt: one BytecodeOptimizer (as the one an OptimizedVM keeps for all *)
(* its load_program calls) specializing up to MaxOptimize functions of     *)
(* OptFunctions in every order, or being replaced by a new optimizer.      *)
(* opz.results keeps every IRFunction with what optimize returned for it.  *)
(***************************************************************************)
MaxOptimize == 3

\* fn peek() { return x }, x a global
PeekFn == IRFunction("peek", <<>>, <<IRBlock("entry", <<LoadVar("x"), Ret>>)>>)

\* fn keep(x) { let t = x; return t }
KeepFn ==
    IRFunction("keep", <<"x">>,
        <<IRBlock("entry", <<LoadVar("x"), StoreVar("t"), LoadVar("t"), Ret>>)>>)

\* fn sum2(a, b) { let t = a; return b + t }
Sum2Fn ==
    IRFunction("sum2", <<"a", "b">>,
        <<IRBlock("entry", <<LoadVar("a"), StoreVar("t"), LoadVar("b"), LoadVar("t"),
                             Add, Ret>>)>>)

OptFunctions == {IterSumFn, DoubleFn, PeekFn, KeepFn, Sum2Fn}

\* BytecodeOptimizer::optimize (optimizations.rs:204-226)
OptOptimize(func) ==
    /\ opz.steps < MaxOptimize
    /\ LET r == optimize(opz.optimizer, func) IN
         opz' = [optimizer |-> r.opt,
                 results   |-> opz.results \cup {[ir |-> func, spec |-> r.func]},
                 steps     |-> opz.steps + 1]
    /\ UNCHANGED <<heap, vmVars, gcVars, jitVars, hot, icache, tcall, octx, probe, gen, bc>>

\* BytecodeOptimizer::new (optimizations.rs:197-202): the next function goes
\* to a new optimizer
OptFresh ==
    /\ opz.optimizer # OptimizerNew
    /\ opz' = [opz EXCEPT !.optimizer = OptimizerNew]
    /\ UNCHANGED <<heap, vmVars, gcVars, jitVars, hot, icache, tcall, octx, probe, gen, bc>>

InitOpt ==
    /\ VmAtRest
    /\ GcAtRest
    /\ JitAtRest
    /\ AuxAtRest

NextOpt ==
    \/ \E func \in OptFunctions : OptOptimize(func)
    \/ OptFresh

SpecOpt == InitOpt /\ [][NextOpt]_vars

\* C15: whenever the same IRFunction has been specialized twice, by the same
\* optimizer or by a new one and whatever was specialized in between, the two
\* results have the same specialized blocks and the same param_slots.
C15_SpecializationRepeatable ==
    \A r1, r2 \in opz.results :
        r1.ir = r2.ir => /\ r1.spec.blocks = r2.spec.blocks
                         /\ r1.spec.param_slots = r2.spec.param_slots

\* the positions <<block, instruction>> of a function, 1-based
Positions(func) ==
    UNION {{<<b, j>> : j \in 1..Len(func.blocks[b].instructions)} :
             b \in 1..Len(func.blocks)}

IrAt(r, pos) == r.ir.blocks[pos[1]].instructions[pos[2]]

SpecAt(r, pos) == r.spec.blocks[pos[1]].instructions[pos[2]]

StoredNames(func) ==
    {func.blocks[pos[1]].instructions[pos[2]].s :
        pos \in {q \in Positions(func) :
                   func.blocks[q[1]].instructions[q[2]].op = "StoreVar"}}

\* the slot each variable access of the specialized function uses, with the
\* slots of the parameters
SlotUses(r) ==
    {[name |-> IrAt(r, pos).s, slot |-> SpecAt(r, pos).i] :
        pos \in {q \in Positions(r.ir) :
                   SpecAt(r, q).op \in {"LoadLocalFast", "StoreLocalFast"}}}
    \cup {[name |-> n, slot |-> r.spec.param_slots[n]] : n \in DOMAIN r.spec.param_slots}

\* C16: in every function an optimizer has specialized, also after other
\* functions, parameter i has slot i, the names first bound by a StoreVar
\* have the slots that follow the parameters, no two names share a slot, and
\* a LoadVar of a name that is neither a parameter nor stored in the function
\* stays Generic.
C16_SlotsDoNotLeak ==
    \A r \in opz.results :
        LET k        == Len(r.ir.params)
            params   == SeqRange(r.ir.params)
            newNames == StoredNames(r.ir) \ params
        IN  /\ \A i \in 1..k : r.spec.param_slots[r.ir.params[i]] = i - 1
            /\ {u.slot : u \in {v \in SlotUses(r) : v.name \in newNames}}
                  = k .. (k + Cardinality(newNames) - 1)
            /\ \A u, v \in SlotUses(r) : u.name # v.name => u.slot # v.slot
            /\ \A pos \in Positions(r.ir) :
                  (/\ IrAt(r, pos).op = "LoadVar"
                   /\ IrAt(r, pos).s \notin params \cup StoredNames(r.ir))
                      => SpecAt(r, pos).op = "Generic"

(***************************************************************************)
(* SpecCache: an InlineCache (optimizations.rs:71-115) under every         *)
(* sequence of cache_slot, cache_field and cache_function calls with keys  *)
(* and values of small sets.  icache.first keeps, per map and key, the     *)
(* value of the first cache call for the key.                              *)
(***************************************************************************)
MaxCacheVal == 1

CacheNames == {"x", "y"}

CacheFuncs == {"f", "g"}

\* the first value cached for a key stays in `first`
FirstInsert(m, k, val) == IF k \in DOMAIN m THEN m ELSE MapInsert(m, k, val)

\* InlineCache::cache_slot (optimizations.rs:108-110)
CacheSlot(var_name, slot) ==
    /\ icache' = [cache |-> cache_slot(icache.cache, var_name, slot),
                  first |-> [icache.first EXCEPT
                                !.slot_cache = FirstInsert(@, var_name, slot)]]
    /\ UNCHANGED <<heap, vmVars, gcVars, jitVars, hot, opz, tcall, octx, probe, gen, bc>>

\* InlineCache::cache_field (optimizations.rs:100-102)
CacheField(type_name, field_name, offset) ==
    /\ icache' = [cache |-> cache_field(icache.cache, type_name, field_name, offset),
                  first |-> [icache.first EXCEPT
                                !.field_cache =
                                    FirstInsert(@, <<type_name, field_name>>, offset)]]
    /\ UNCHANGED <<heap, vmVars, gcVars, jitVars, hot, opz, tcall, octx, probe, gen, bc>>

\* InlineCache::cache_function (optimizations.rs:92-94)
CacheFunction(call_site, func) ==
    /\ icache' = [cache |-> cache_function(icache.cache, call_site, func),
                  first |-> [icache.first EXCEPT
                                !.function_cache = FirstInsert(@, call_site, func)]]
    /\ UNCHANGED <<heap, vmVars, gcVars, jitVars, hot, opz, tcall, octx, probe, gen, bc>>

InitCache ==
    /\ VmAtRest
    /\ GcAtRest
    /\ JitAtRest
    /\ AuxAtRest

NextCache ==
    \/ \E var_name \in CacheNames, slot \in 0..MaxCacheVal : CacheSlot(var_name, slot)
    \/ \E field_name \in CacheNames, offset \in 0..MaxCacheVal :
          CacheField("Point", field_name, offset)
    \/ \E call_site \in 0..MaxCacheVal, func \in CacheFuncs :
          CacheFunction(call_site, func)

SpecCache == InitCache /\ [][NextCache]_vars

\* C17: every lookup returns the value of the first cache call for its key,
\* whatever cache calls for the same key came later, and each of the three
\* maps holds exactly the keys that were cached in it.
C17_CacheKeepsFirstValue ==
    /\ \A name \in CacheNames :
          get_cached_slot(icache.cache, name) = MapGet(icache.first.slot_cache, name)
    /\ \A name \in CacheNames :
          get_cached_field(icache.cache, "Point", name)
              = MapGet(icache.first.field_cache, <<"Point", name>>)
    /\ \A call_site \in 0..MaxCacheVal :
          get_cached_function(icache.cache, call_site)
              = MapGet(icache.first.function_cache, call_site)

(***************************************************************************)
(* SpecTail: is_tail_call and the specializer on every function of two     *)
(* blocks whose blocks are sequences of at most MaxBlockLen instructions   *)
(* out of Call, Ret and PushInt.                                           *)
(***************************************************************************)
MaxBlockLen == 3

TailOps == {Call("f", 1), Ret, PushInt(1)}

RECURSIVE SeqsUpTo(_, _)
\* the sequences of at most n elements of S
SeqsUpTo(S, n) ==
    IF n = 0 THEN {<<>>}
    ELSE SeqsUpTo(S, n - 1)
           \cup {Append(q, x) : q \in {r \in SeqsUpTo(S, n - 1) : Len(r) = n - 1}, x \in S}

\* is_tail_call for every index of every block (one index past the end too)
\* and BytecodeOptimizer::optimize on a new optimizer
TailSpecialize ==
    /\ ~tcall.done
    /\ tcall' = [func   |-> tcall.func,
                 blocks |-> optimize(OptimizerNew, tcall.func).func.blocks,
                 tail   |-> {pos \in UNION {{<<b, idx>> :
                                    idx \in 0..Len(tcall.func.blocks[b].instructions)} :
                                 b \in 1..Len(tcall.func.blocks)} :
                               is_tail_call(tcall.func.blocks[pos[1]], pos[2])},
                 done   |-> TRUE]
    /\ UNCHANGED <<heap, vmVars, gcVars, jitVars, hot, opz, icache, octx, probe, gen, bc>>

InitTail ==
    /\ VmAtRest
    /\ GcAtRest
    /\ JitAtRest
    /\ HotAtRest
    /\ OptAtRest
    /\ CacheAtRest
    /\ CtxAtRest
    /\ ProbeAtRest
    /\ GenAtRest
    /\ BcAtRest
    /\ \E first \in SeqsUpTo(TailOps, MaxBlockLen), second \in SeqsUpTo(TailOps, MaxBlockLen) :
          tcall = [func   |-> IRFunction("t", <<>>, <<IRBlock("entry", first),
                                                      IRBlock("next", second)>>),
                   blocks |-> <<>>, tail |-> {}, done |-> FALSE]

NextTail == TailSpecialize

SpecTail == InitTail /\ [][NextTail]_vars

\* instruction idx (0-based) of the block is a Call and instruction idx + 1
\* exists in the block and is Ret
CallThenRet(block, idx) ==
    /\ idx + 1 < Len(block.instructions)
    /\ block.instructions[idx + 1].op = "Call"
    /\ block.instructions[idx + 2].op = "Ret"

OvmCurOp(vm) ==
    LET fr   == OvmTopFrame(vm)
        func == vm.functions[fr.func_name]
    IN  IF fr.block_idx >= Len(func.blocks) THEN SOp("None", 0, "", NoOpcode)
        ELSE IF fr.instr_idx >= Len(func.blocks[fr.block_idx + 1].instructions)
        THEN SOp("None", 0, "", NoOpcode)
        ELSE func.blocks[fr.block_idx + 1].instructions[fr.instr_idx + 1]

\* C19: a step that executes a TailCall, to the same function or to another
\* one, never leaves more activations of execute_function than there were.
C19_TailCallKeepsDepth ==
    [][(ovm.pc = "running" /\ OvmCurOp(ovm).op = "TailCall" /\ ovm' # ovm)
          => Len(ovm'.frames) <= Len(ovm.frames)]_vars

UntailInstr(o) == IF o.op = "TailCall" THEN Generic(Call(o.s, o.i)) ELSE o

UntailBlock(block) ==
    IRBlock(block.label,
            [j \in 1..Len(block.instructions) |-> UntailInstr(block.instructions[j])])

\* the loaded functions with every TailCall(name, k) put back to
\* Generic(Call(name, k)), the Ret that follows it being still in place
Untail(functions) ==
    [n \in DOMAIN functions |->
        [functions[n] EXCEPT !.blocks = [b \in 1..Len(functions[n].blocks) |->
                                            UntailBlock(functions[n].blocks[b])]]]

\* what execute(jit_prog, jit_args) returns on a new OptimizedVM that holds
\* the functions of Untail
UntailedResult ==
    OvmRun(OvmEnter([OptimizedVMNew EXCEPT
                        !.functions = Untail(ovm.functions),
                        !.pc = "running",
                        !.locals = SetArgs(@, [i \in 1..Len(jit_args) |->
                                                  VInt(jit_args[i])], 0)],
                    <<>>, OvmFrame(jit_prog, FALSE, <<>>))).result

MaxCtxInt == 2

MaxCtxStack == 2

CtxValues ==
    {VInt(n) : n \in (-MaxCtxInt)..MaxCtxInt \cup {I64_MIN, I64_MAX}}
        \cup {VBool(TRUE), Unit}

CtxOps ==
    {SOp(o, 0, "", NoOpcode) : o \in IntOps}
        \cup {LoadLocalFast(0), StoreLocalFast(0), PushSmallInt(1), TailCall("f", 0),
              Generic(Ret)}

\* OptimizedContext::push (optimizations.rs:354-356)
CtxPush(v) ==
    /\ ~octx.done
    /\ Len(octx.vm.stack) < MaxCtxStack
    /\ octx' = [octx EXCEPT !.vm = Push(@, v)]
    /\ UNCHANGED <<heap, vmVars, gcVars, jitVars, hot, opz, icache, tcall, probe, gen, bc>>

\* OptimizedContext::execute_specialized (optimizations.rs:365-507), in a
\* build with overflow-checks on or off: the context after the call and the
\* Result it returns
CtxExecute(o, checks) ==
    /\ ~octx.done
    /\ LET r == execute_specialized([octx.vm EXCEPT !.pc = "running",
                                                    !.overflow_checks = checks], o) IN
         octx' = [vm   |-> [r EXCEPT !.pc = "idle", !.result = NoResult],
                  pre  |-> octx.vm.stack,
                  op   |-> o,
                  ret  |-> IF r.pc = "returned" THEN r.result ELSE Ok(Unit),
                  done |-> TRUE]
    /\ UNCHANGED <<heap, vmVars, gcVars, jitVars, hot, opz, icache, tcall, probe, gen, bc>>

InitCtx ==
    /\ VmAtRest
    /\ GcAtRest
    /\ JitAtRest
    /\ AuxAtRest

NextCtx ==
    \/ \E v \in CtxValues : CtxPush(v)
    \/ \E o \in CtxOps, checks \in BOOLEAN : CtxExecute(o, checks)

SpecCtx == InitCtx /\ [][NextCtx]_vars

\* The two operands of the executed opcode: a was pushed first
CtxLeft == octx.pre[Len(octx.pre) - 1]

CtxRight == octx.pre[Len(octx.pre)]

\* An integer opcode has been executed on at least two operands
CtxIntOpRan == octx.done /\ octx.op.op \in IntOps /\ Len(octx.pre) >= 2

\* left op right on i64 (an arithmetic result taken modulo 2^IntBits)
CtxExpected ==
    LET a == CtxLeft.v
        b == CtxRight.v
        o == octx.op.op
    IN  CASE o = "IntAdd" -> VInt(WrapI64(a + b))
          [] o = "IntSub" -> VInt(WrapI64(a - b))
          [] o = "IntMul" -> VInt(WrapI64(a * b))
          [] o = "IntDiv" -> VInt(WrapI64(TruncDiv(a, b)))
          [] o = "IntLt"  -> VBool(a < b)
          [] o = "IntGt"  -> VBool(b < a)
          [] o = "IntLe"  -> VBool(~(b < a))
          [] o = "IntGe"  -> VBool(~(a < b))
          [] o = "IntEq"  -> VBool(a = b)
          [] o = "IntNe"  -> VBool(~(a = b))

CtxTypeError ==
    /\ octx.ret = Err("Type error")
    /\ octx.vm.stack = Below(octx.pre, 2)

CtxOneResult ==
    /\ octx.ret.kind = "ok"
    /\ octx.vm.stack = Append(Below(octx.pre, 2), CtxExpected)

\* C22: a specialized integer opcode executed on two operands of which one
\* is not an Int returns a type-mismatch error and pushes nothing; on two Int
\* operands it pushes exactly one value, left op right (an Int for
\* arithmetic, a Bool for comparisons).  A zero divisor of IntDiv is the
\* division-by-zero error, which pushes nothing.
C22_IntOpsTypeErrorOrOneResult ==
    CtxIntOpRan =>
        IF CtxLeft.tag = "Int" /\ CtxRight.tag = "Int"
        THEN IF octx.op.op = "IntDiv" /\ CtxRight.v = 0
             THEN /\ octx.ret = Err("Division by zero")
                  /\ octx.vm.stack = Below(octx.pre, 2)
             ELSE CtxOneResult
        ELSE CtxTypeError

\* IntSub has run on 1 and 2, pushed in that order
C22_Witness_OrderedOperands ==
    /\ CtxIntOpRan
    /\ octx.op.op = "IntSub"
    /\ CtxLeft = VInt(1) /\ CtxRight = VInt(2)
    /\ octx.vm.stack = <<VInt(-1)>>


(***************************************************************************)
(* SpecBoth: one program run by the baseline VM (VM::load_program and      *)
(* VM::execute("main")) and by the OptimizedVM (load_program and           *)
(* execute("main", [])).  The programs are those of scenario "probe",      *)
(* every sequence of at most MaxPre pushes followed by one of ProbeOps,    *)
(* and the actor programs of BothScenarios.                                *)
(***************************************************************************)
MaxPre == 2

ProbePushes == {PushInt(-3), PushInt(0), PushInt(2), PushBool(FALSE)}

ProbeOps ==
    {<<Add>>, <<Sub>>, <<Mul>>, <<Div>>, <<Eq>>, <<Ne>>, <<Lt>>, <<Gt>>, <<Le>>, <<Ge>>}
        \cup {<<StoreVar("v")>>, <<StoreVar("v"), LoadVar("v")>>, <<LoadVar("z")>>,
              <<PushInt(300)>>, <<PushBool(TRUE)>>, <<PushFloat(1)>>, <<PushStr("s")>>,
              <<Ret>>}
        \cup {<<LoadField("x")>>, <<PushStr("s"), LoadField("x")>>,
              <<PushStruct("P", <<"x">>)>>,
              <<PushStruct("P", <<"x", "y">>), LoadField("x")>>,
              <<PushStruct("P", <<"x", "y">>), LoadField("y")>>,
              <<PushStruct("P", <<"x", "y">>), LoadField("z")>>,
              <<PushStruct("P", <<"x", "x">>), LoadField("x")>>}
        \cup {<<Call("inc", 1)>>, <<Call("inc", 0)>>, <<Call("inc", 2)>>,
              <<Call("noop", 0)>>, <<Call("noop", 0), StoreVar("v")>>,
              <<Call("missing", 0)>>, <<Call("peek", 0)>>}
        \cup {<<Spawn("Idle", 0)>>, <<Spawn("Idle", 1)>>, <<Send>>, <<Receive>>}
        \cup {<<Jmp("far")>>, <<Jmp("nowhere")>>, <<JmpIfFalse("far")>>,
              <<JmpIfFalse("nowhere")>>}

ProbeCases == {[pre |-> p, ops |-> o] : p \in SeqsUpTo(ProbePushes, MaxPre), o \in ProbeOps}

BothScenarios == {"probe", "deadlock", "deadlock_open", "ping", "crash"}

InitBoth ==
    /\ scenario \in BothScenarios
    /\ probe \in (IF scenario = "probe" THEN ProbeCases ELSE {[pre |-> <<>>, ops |-> <<>>]})
    /\ VmNew
    /\ GcAtRest
    /\ jit_prog = "main"
    /\ jit_args = <<>>
    /\ ovm = OvmLoaded(ScenarioProgram(scenario))
    /\ nat = NativeNew
    /\ HotAtRest /\ OptAtRest /\ CacheAtRest /\ TailAtRest /\ CtxAtRest /\ GenAtRest
    /\ BcAtRest

NextBoth ==
    \/ Next
    \/ OvmExecute
    \/ OvmStep

SpecBoth == InitBoth /\ [][NextBoth]_vars


\* Where a VM stands: the depth of calls, the function, the block and the
\* instruction its loop executes next
BasePlace(vm) ==
    <<Len(vm.call_stack), CurFrame(vm).func_name, CurFrame(vm).current_block_idx,
      CurFrame(vm).current_instr_idx>>

OvmPlace(vm) ==
    <<Len(vm.frames), OvmTopFrame(vm).func_name, OvmTopFrame(vm).block_idx,
      OvmTopFrame(vm).instr_idx>>

\* The slot the specializer gave a name in the running function, -1 for none
SlotOf(vm, name) ==
    LET func == vm.functions[OvmTopFrame(vm).func_name]
    IN  IF name \in DOMAIN func.param_slots THEN func.param_slots[name]
        ELSE IF name \in DOMAIN vm.optimizer.slot_cache THEN vm.optimizer.slot_cache[name]
        ELSE -1

\* Every local of the running baseline frame is in its slot of the OptimizedVM
LocalsAgree(b, o) ==
    \A name \in DOMAIN CurFrame(b).locals :
        LET slot == SlotOf(o, name)
        IN  /\ slot >= 0
            /\ slot < Len(o.locals)
            /\ o.locals[slot + 1] = CurFrame(b).locals[name]

\* The two VMs stand at the same place with the same operand stack and locals
Aligned ==
    /\ ctx[0].pc = "running"
    /\ ovm.pc = "running"
    /\ BasePlace(ctx[0]) = OvmPlace(ovm)
    /\ ctx[0].stack = ovm.stack
    /\ LocalsAgree(ctx[0], ovm)

\* The baseline VM b and the OptimizedVM o have ended alike or stand alike
SameAfter(b, o) ==
    IF b.pc = "returned"
    THEN /\ o.pc = "returned"
         /\ b.result.kind = o.result.kind
         /\ b.result.val = o.result.val
    ELSE /\ b.pc = "running"
         /\ o.pc = "running"
         /\ BasePlace(b) = OvmPlace(o)
         /\ b.stack = o.stack
         /\ LocalsAgree(b, o)

\* The root context executes one iteration of the loop of execute
RootSteps == ctx[0].pc = "running" /\ ctx'[0].gc_timer # ctx[0].gc_timer

\* C21: where the two VMs stand alike and the OptimizedVM is about to execute
\* an opcode wrapped as Generic(op), the baseline VM executing op and the
\* OptimizedVM executing Generic(op) leave the same operand stack, the same
\* locals and the same place of control (or end with the same outcome).
C21_GenericSameEffect ==
    [][(Aligned /\ OvmCurOp(ovm).op = "Generic" /\ RootSteps)
          => SameAfter(ctx'[0], OvmExec(ovm))]_vars


\* The opcode the loop of execute is about to execute in vm, "None" at the
\* end of a block or in an unknown function
BaseCurOp(vm) ==
    IF FuncKnown(vm) /\ ~AtBlockEnd(vm) THEN CurInstr(vm).op ELSE "None"

\* The top two values of a stack are Ints and the top one, the divisor, is 0
IntOverZero(st) ==
    /\ Len(st) >= 2
    /\ st[Len(st)] = VInt(0)
    /\ st[Len(st) - 1].tag = "Int"

DivByZeroReturned(res) == res.kind = "err" /\ res.err = "Division by zero"

\* C23: a division of an Int by Int 0 makes execute return the
\* division-by-zero error and no value, in the baseline VM (Div) as in the
\* OptimizedVM (IntDiv), whatever the dividend.
C23_DivisionByZeroFails ==
    [][/\ (/\ ctx[0].pc = "running"
           /\ BaseCurOp(ctx[0]) = "Div"
           /\ IntOverZero(ctx[0].stack)
           /\ RootSteps)
          => (ctx'[0].pc = "returned" /\ DivByZeroReturned(ctx'[0].result))
       /\ (/\ ovm.pc = "running"
           /\ OvmCurOp(ovm).op = "IntDiv"
           /\ IntOverZero(ovm.stack)
           /\ ovm' # ovm)
          => (ovm'.pc = "returned" /\ DivByZeroReturned(ovm'.result))]_vars

\* Both VMs have returned the error for -3 / 0
C23_Witness_BothFailed ==
    /\ scenario = "probe"
    /\ probe = [pre |-> <<PushInt(-3), PushInt(0)>>, ops |-> <<Div>>]
    /\ ctx[0].pc = "returned"
    /\ DivByZeroReturned(ctx[0].result)
    /\ ovm.pc = "returned"
    /\ DivByZeroReturned(ovm.result)


\* The instruction the loop of execute is about to execute in the root
RootInstr == CurInstr(ctx[0])

DistinctNames(fields) ==
    \A i, j \in 1..Len(fields) : fields[i] = fields[j] => i = j

\* The step of the root is a PushStruct that finds its values on the stack
RootPushesStruct ==
    /\ ctx[0].pc = "running"
    /\ BaseCurOp(ctx[0]) = "PushStruct"
    /\ Len(ctx[0].stack) >= Len(RootInstr.fs)
    /\ RootSteps

\* PushStruct has popped its n values and left one Object whose field fi is
\* the i-th of them in the order they were pushed
StructPushed ==
    LET n    == Len(RootInstr.fs)
        vals == TopN(ctx[0].stack, n)
        st2  == ctx'[0].stack
    IN  /\ ctx'[0].pc = "running"
        /\ Len(st2) = Len(ctx[0].stack) - n + 1
        /\ Below(st2, 1) = Below(ctx[0].stack, n)
        /\ st2[Len(st2)].tag = "Object"
        /\ LET obj == HeapGet(heap', st2[Len(st2)].v)
           IN  /\ obj.kind = "Struct"
               /\ DOMAIN obj.fields = SeqRange(RootInstr.fs)
               /\ \A i \in 1..n : obj.fields[RootInstr.fs[i]] = vals[i]

\* The step of the root is a LoadField that finds a value on the stack
RootLoadsField ==
    /\ ctx[0].pc = "running"
    /\ BaseCurOp(ctx[0]) = "LoadField"
    /\ ctx[0].stack # <<>>
    /\ RootSteps

\* LoadField has replaced an Object pointing at a Struct by the value of the
\* field, and has made execute fail for a name that is no field of it and
\* for every other value
FieldLoaded ==
    LET st  == ctx[0].stack
        val == st[Len(st)]
        obj == HeapGet(heap, val.v)
    IN  IF val.tag = "Object" /\ obj.kind = "Struct"
        THEN IF RootInstr.s \in DOMAIN obj.fields
             THEN /\ ctx'[0].pc = "running"
                  /\ ctx'[0].stack = Append(Below(st, 1), obj.fields[RootInstr.s])
             ELSE /\ ctx'[0].pc = "returned"
                  /\ ctx'[0].result = Err("Field not found")
        ELSE /\ ctx'[0].pc = "returned"
             /\ ctx'[0].result.kind = "err"
             /\ ctx'[0].result.err # "Field not found"

\* C24 as stated: PushStruct(type, [f1..fn]) pops n values, binds fi to the
\* i-th value pushed and leaves one Object; LoadField of a field yields the
\* value bound to it, of another name the unknown-field error, and on a value
\* that is no Object pointing at a Struct an error.
C24_StructBindsEveryField ==
    [][/\ RootPushesStruct => StructPushed
       /\ RootLoadsField => FieldLoaded]_vars

\* C24, amended: the same for a PushStruct whose field names are pairwise
\* distinct.
C24_StructBindsDistinctFields ==
    [][/\ (RootPushesStruct /\ DistinctNames(RootInstr.fs)) => StructPushed
       /\ RootLoadsField => FieldLoaded]_vars

\* P { x: -3, y: 2 }.y has been evaluated to 2
C24_Witness_SecondFieldLoaded ==
    /\ scenario = "probe"
    /\ probe = [pre |-> <<PushInt(-3), PushInt(2)>>,
                ops |-> <<PushStruct("P", <<"x", "y">>), LoadField("y")>>]
    /\ ctx[0].pc = "returned"
    /\ ctx[0].result = Ok(VInt(2))


\* The values the pushes of the probe leave on the stack, in push order
PreValues ==
    [i \in 1..Len(probe.pre) |->
        IF probe.pre[i].op = "PushInt" THEN VInt(probe.pre[i].i)
        ELSE [tag |-> "Bool", v |-> probe.pre[i].i]]

\* The probe calls a function of the program with its k arguments on the stack
ProbeCalls ==
    /\ scenario = "probe"
    /\ probe.ops[1].op = "Call"
    /\ probe.ops[1].s \in {"inc", "noop"}
    /\ probe.ops[1].i <= Len(probe.pre)

\* What the callee of the probe returns: inc(x) returns x + 1, noop returns
\* without a value
CalleeValue ==
    LET args == TopN(PreValues, probe.ops[1].i)
    IN  IF probe.ops[1].s = "inc" THEN VInt(args[1].v + 1) ELSE Unit

\* The stack the claim says the caller has after the call: what was below the
\* arguments, and the returned value on top
StackAfterCall == Append(Below(PreValues, probe.ops[1].i), CalleeValue)

\* The baseline VM is back in main, at the instruction after the Call
BaseBackInCaller ==
    /\ ctx[0].pc = "running"
    /\ BasePlace(ctx[0]) = <<1, "main", 0, Len(probe.pre) + 1>>

OvmBackInCaller ==
    /\ ovm.pc = "running"
    /\ OvmPlace(ovm) = <<1, "main", 0, Len(probe.pre) + 1>>

\* C25: after a Call(name, k) has returned the caller's locals are what they
\* were before the call, the stack below the k arguments is unchanged and
\* exactly one value is on top of it, the callee's return value or Unit; in
\* the baseline VM and in the OptimizedVM.
C25_CallLeavesOneValue ==
    ProbeCalls =>
        /\ BaseBackInCaller =>
              /\ ctx[0].stack = StackAfterCall
              /\ CurFrame(ctx[0]).locals = EmptyMap
        /\ OvmBackInCaller => ovm.stack = StackAfterCall


\* The number of operands an opcode of the IR pops
Operands(ins) ==
    CASE ins.op \in BinaryOps -> 2
      [] ins.op \in {"StoreVar", "LoadField", "JmpIfFalse"} -> 1
      [] ins.op = "PushStruct" -> Len(ins.fs)
      [] ins.op \in {"Call", "Spawn"} -> ins.i
      [] ins.op = "Send" -> 2
      [] OTHER -> 0

\* The number of operands a specialized opcode pops
SpecializedOperands(o) ==
    CASE o.op \in IntOps -> 2
      [] o.op = "StoreLocalFast" -> 1
      [] o.op = "TailCall" -> o.i
      [] o.op = "Generic" -> Operands(o.g)
      [] OTHER -> 0

UnderflowErrors ==
    {"Stack underflow", "Stack underflow in StoreVar", "Stack underflow in PushStruct",
     "Stack underflow in LoadField", "Stack underflow in Spawn", "Stack underflow in Send",
     "Stack underflow in Call", "Stack underflow in TailCall",
     "Stack underflow in JmpIfFalse"}

UnderflowReturned(vm) ==
    vm.pc = "returned" /\ vm.result.kind = "err" /\ vm.result.err \in UnderflowErrors

\* The root is about to execute an opcode that needs more operands than the
\* stack holds
RootUnderflows ==
    /\ ctx[0].pc = "running"
    /\ BaseCurOp(ctx[0]) # "None"
    /\ Len(ctx[0].stack) < Operands(RootInstr)

OvmUnderflows ==
    /\ ovm.pc = "running"
    /\ Len(ovm.stack) < SpecializedOperands(OvmCurOp(ovm))

\* C27: an opcode that finds fewer operands on the stack than it pops makes
\* execute fail with a stack-underflow error, in the baseline VM and in the
\* OptimizedVM; none continues.
C27_UnderflowFails ==
    [][/\ (RootUnderflows /\ RootSteps) => UnderflowReturned(ctx'[0])
       /\ (OvmUnderflows /\ ovm' # ovm) => UnderflowReturned(ovm')]_vars


\* Call(name, k) of a function of the program that has not k parameters, with
\* the k arguments on the stack
ArityMismatch(ins, st, functions) ==
    /\ ins.op = "Call"
    /\ ins.s \in DOMAIN functions
    /\ ins.i # Len(functions[ins.s].params)
    /\ ins.i <= Len(st)

RootCallsWithWrongArity ==
    /\ ctx[0].pc = "running"
    /\ BaseCurOp(ctx[0]) = "Call"
    /\ ArityMismatch(RootInstr, ctx[0].stack, Functions)

OvmCallsWithWrongArity ==
    /\ ovm.pc = "running"
    /\ OvmCurOp(ovm).op = "Generic"
    /\ ArityMismatch(OvmCurOp(ovm).g, ovm.stack, ovm.functions)

\* C28: a Call(name, k) whose k is not the number of parameters of name makes
\* execute fail with an error at the Call; the callee is not entered.  In the
\* baseline VM and in the OptimizedVM.
C28_ArityMismatchFails ==
    [][/\ (RootCallsWithWrongArity /\ RootSteps)
          => (ctx'[0].pc = "returned" /\ ctx'[0].result.kind = "err")
       /\ (OvmCallsWithWrongArity /\ ovm' # ovm)
          => (ovm'.pc = "returned" /\ ovm'.result.kind = "err")]_vars


\* The index of the block of func labelled label, -1 for none
BlockOf(func, label) ==
    IF \E i \in 1..Len(func.blocks) : func.blocks[i].label = label
    THEN (CHOOSE i \in 1..Len(func.blocks) :
             /\ func.blocks[i].label = label
             /\ \A j \in 1..(i - 1) : func.blocks[j].label # label) - 1
    ELSE -1

\* Where the claim says a Jmp or JmpIfFalse at place p of func on stack st
\* continues: instruction 0 of the labelled block, or the next block of the
\* list, with the condition popped; "fail" for a label that names no block
JumpOutcome(ins, func, p, st) ==
    IF ins.op = "JmpIfFalse" /\ st = <<>> THEN [kind |-> "fail"]
    ELSE IF BlockOf(func, ins.s) = -1 THEN [kind |-> "fail"]
    ELSE IF ins.op = "Jmp"
    THEN [kind |-> "go", place |-> <<p[1], p[2], BlockOf(func, ins.s), 0>>, stack |-> st]
    ELSE IF st[Len(st)] = VBool(FALSE)
    THEN [kind |-> "go", place |-> <<p[1], p[2], BlockOf(func, ins.s), 0>>,
          stack |-> Below(st, 1)]
    ELSE [kind |-> "go", place |-> <<p[1], p[2], p[3] + 1, 0>>, stack |-> Below(st, 1)]

\* A VM that stood at a jump now stands where `out` says.  After the last
\* instruction of a block (last) the VM is at the end of that block until its
\* next iteration moves it to the next block: both count as the fall-through.
JumpedAs(out, running, failed, place, st, before, last) ==
    IF out.kind = "fail" THEN failed
    ELSE /\ running
         /\ st = out.stack
         /\ \/ place = out.place
            \/ /\ last
               /\ out.place[3] = before[3] + 1
               /\ place = <<before[1], before[2], before[3], before[4] + 1>>

RootJumps ==
    /\ ctx[0].pc = "running"
    /\ BaseCurOp(ctx[0]) \in {"Jmp", "JmpIfFalse"}
    /\ RootSteps

OvmJumps ==
    /\ ovm.pc = "running"
    /\ OvmCurOp(ovm).op = "Generic"
    /\ OvmCurOp(ovm).g.op \in {"Jmp", "JmpIfFalse"}
    /\ ovm' # ovm

\* C30: JmpIfFalse L pops one value and continues at instruction 0 of the
\* block labelled L if the value is Bool(false), in the next block of the list
\* otherwise; Jmp L continues at instruction 0 of the block labelled L; either
\* fails with an error when L names no block of the function.  In the baseline
\* VM and in the OptimizedVM.
C30_JumpsResolveOrFail ==
    [][/\ RootJumps =>
            JumpedAs(JumpOutcome(RootInstr, CurFunc(ctx[0]), BasePlace(ctx[0]),
                                 ctx[0].stack),
                     ctx'[0].pc = "running",
                     ctx'[0].pc = "returned" /\ ctx'[0].result.kind = "err",
                     IF ctx'[0].pc = "running" THEN BasePlace(ctx'[0]) ELSE <<>>,
                     ctx'[0].stack, BasePlace(ctx[0]),
                     CurFrame(ctx[0]).current_instr_idx + 1
                        = Len(CurBlock(ctx[0]).instructions))
       /\ OvmJumps =>
            JumpedAs(JumpOutcome(OvmCurOp(ovm).g,
                                 ovm.functions[OvmTopFrame(ovm).func_name],
                                 OvmPlace(ovm), ovm.stack),
                     ovm'.pc = "running",
                     ovm'.pc = "returned" /\ ovm'.result.kind = "err",
                     IF ovm'.pc = "running" THEN OvmPlace(ovm') ELSE <<>>,
                     ovm'.stack, OvmPlace(ovm),
                     OvmCurOp([ovm EXCEPT !.frames[Len(ovm.frames)].instr_idx = @ + 1]).op
                        = "None")]_vars


\* The opcodes the claim calls the compilable subset
InSubset(o) ==
    \/ o.op \in IntOps \cup {"PushSmallInt", "LoadLocalFast", "StoreLocalFast"}
    \/ o.op = "Generic" /\ o.g.op \in {"PushInt", "Jmp", "JmpIfFalse", "Ret"}

\* Every instruction of func is of the subset and every slot is in the pool
Compilable(func) ==
    \A b \in 1..Len(func.blocks) :
        \A k \in 1..Len(func.blocks[b].instructions) :
            LET o == func.blocks[b].instructions[k]
            IN  /\ InSubset(o)
                /\ o.op \in {"LoadLocalFast", "StoreLocalFast"} => o.i < JIT_VARS

\* C29: JITCompiler::compile returns an error, without a panic and without
\* code, for every function that has an opcode outside the compilable subset
\* or a slot outside the pool of 128 variables, and returns code for every
\* other function.
C29_CompileErrsOutsideSubsetOnly ==
    nat.status # "none" =>
        /\ nat.status # "panicked"
        /\ nat.status = "compile_error" <=> ~Compilable(JitEntry)


(***************************************************************************)
(* SpecGen: IRGenerator::generate (ir.rs:60-121) on a function definition  *)
(* and BytecodeOptimizer::optimize on the IRFunction it emits.  An AstNode *)
(* is a record: node is the variant, val its number (the literal; 1 for a  *)
(* FunctionCall whose func is an Identifier), name its string (the name,   *)
(* the operator, the member), names the field names of a StructLiteral and *)
(* kids its sub-expressions in the order gen_expr visits them.             *)
(***************************************************************************)
Ast(node, val, name, names, kids) ==
    [node |-> node, val |-> val, name |-> name, names |-> names, kids |-> kids]

IntLiteral(n) == Ast("IntLiteral", n, "", <<>>, <<>>)

BoolLiteral(b) == Ast("BoolLiteral", IF b THEN 1 ELSE 0, "", <<>>, <<>>)

Identifier(name) == Ast("Identifier", 0, name, <<>>, <<>>)

LetStmt(name, expr) == Ast("LetStmt", 0, name, <<>>, <<expr>>)

BinaryOp(left, op, right) == Ast("BinaryOp", 0, op, <<>>, <<left, right>>)

\* Return { value }: kids is <<>> for None
ReturnStmt(value) == Ast("Return", 0, "", <<>>, value)

Block(stmts) == Ast("Block", 0, "", <<>>, stmts)

\* IfExpr: kids is <<condition, then_body>> or <<condition, then_body, else_body>>
IfExpr(kids) == Ast("IfExpr", 0, "", <<>>, kids)

WhileLoop(condition, body) == Ast("WhileLoop", 0, "", <<>>, <<condition, body>>)

Loop(body) == Ast("Loop", 0, "", <<>>, <<body>>)

FunctionCall(name, args) == Ast("FunctionCall", 1, name, <<>>, args)

MemberAccess(object, member) == Ast("MemberAccess", 0, member, <<>>, <<object>>)

StructLiteral(name, names, exprs) == Ast("StructLiteral", 0, name, names, exprs)

SpawnExpr(actor, args) == Ast("Spawn", 0, actor, <<>>, args)

SendExpr(target, message) == Ast("Send", 0, "", <<>>, <<target, message>>)

\* Receive { arms }: kids are the bodies of the arms
ReceiveExpr(arms) == Ast("Receive", 0, "", <<>>, arms)

\* MatchExpr: kids is the scrutinee and then the bodies of the arms
MatchExpr(scrutinee, arms) == Ast("MatchExpr", 0, "", <<>>, <<scrutinee>> \o arms)

Break == Ast("Break", 0, "", <<>>, <<>>)

\* ir.rs:164-176
BinaryOpcode(op) ==
    CASE op = "+"  -> Add
      [] op = "-"  -> Sub
      [] op = "*"  -> Mul
      [] op = "/"  -> Div
      [] op = "==" -> Eq
      [] op = "!=" -> Ne
      [] op = "<"  -> Lt
      [] op = ">"  -> Gt
      [] op = "<=" -> Le
      [] op = ">=" -> Ge
      [] OTHER     -> Ret

\* format!("{}_{}", prefix, id)
Label(prefix, id) == prefix \o "_" \o ToString(id)

\* g is the generator at work: the blocks of the function and temp_counter.
\* Emit pushes an instruction on the last block, NewBlock pushes a block.
Emit(g, opcode) ==
    [g EXCEPT !.blocks[Len(g.blocks)].instructions = Append(@, opcode)]

NewBlock(g, label) == [g EXCEPT !.blocks = Append(@, IRBlock(label, <<>>))]

Counted(g) == [g EXCEPT !.temp_counter = @ + 1]

RECURSIVE gen_expr(_, _)
RECURSIVE GenEach(_, _)
\* gen_expr on each expression of a list, in order
GenEach(exprs, g) ==
    IF exprs = <<>> THEN g ELSE GenEach(Tail(exprs), gen_expr(Head(exprs), g))

\* IRGenerator::gen_expr (ir.rs:123-377) and gen_arm (ir.rs:379-382)
gen_expr(expr, g) ==
    LET kids == expr.kids
        id   == g.temp_counter
    IN
    CASE expr.node = "IntLiteral"    -> Emit(g, PushInt(expr.val))
      [] expr.node = "FloatLiteral"  -> Emit(g, PushFloat(expr.val))
      [] expr.node = "StringLiteral" -> Emit(g, PushStr(expr.name))
      [] expr.node = "BoolLiteral"   -> Emit(g, PushBool(expr.val = 1))
      [] expr.node = "Identifier"    -> Emit(g, LoadVar(expr.name))
      [] expr.node = "LetStmt"       -> Emit(gen_expr(kids[1], g), StoreVar(expr.name))
      [] expr.node = "BinaryOp" ->
            Emit(gen_expr(kids[2], gen_expr(kids[1], g)), BinaryOpcode(expr.name))
      [] expr.node = "Return"        -> Emit(GenEach(kids, g), Ret)
      [] expr.node = "Block"         -> GenEach(kids, g)
      [] expr.node = "IfExpr" ->
            LET cond  == Emit(gen_expr(kids[1], Counted(g)), JmpIfFalse(Label("else", id)))
                then  == Emit(gen_expr(kids[2], NewBlock(cond, Label("then", id))),
                              Jmp(Label("end", id)))
                else  == Emit(GenEach(SubSeq(kids, 3, Len(kids)),
                                      NewBlock(then, Label("else", id))),
                              Jmp(Label("end", id)))
            IN  NewBlock(else, Label("end", id))
      [] expr.node = "WhileLoop" ->
            LET jump == Emit(Counted(g), Jmp(Label("while_cond", id)))
                cond == Emit(gen_expr(kids[1], NewBlock(jump, Label("while_cond", id))),
                             JmpIfFalse(Label("while_end", id)))
                body == Emit(gen_expr(kids[2], NewBlock(cond, Label("while_body", id))),
                             Jmp(Label("while_cond", id)))
            IN  NewBlock(body, Label("while_end", id))
      [] expr.node = "Loop" ->
            LET jump == Emit(Counted(g), Jmp(Label("loop_body", id)))
                body == Emit(gen_expr(kids[1], NewBlock(jump, Label("loop_body", id))),
                             Jmp(Label("loop_body", id)))
            IN  NewBlock(body, Label("loop_end", id))
      [] expr.node = "MatchExpr"     -> GenEach(kids, g)
      [] expr.node = "StructLiteral" ->
            Emit(GenEach(kids, g), PushStruct(expr.name, expr.names))
      [] expr.node = "FunctionCall" ->
            IF expr.val = 1 THEN Emit(GenEach(kids, g), Call(expr.name, Len(kids))) ELSE g
      [] expr.node = "Spawn"  -> Emit(GenEach(kids, g), Spawn(expr.name, Len(kids)))
      [] expr.node = "Send"   -> Emit(GenEach(kids, g), Send)
      [] expr.node = "Receive" -> GenEach(kids, Emit(g, Receive))
      [] expr.node = "MemberAccess" -> Emit(gen_expr(kids[1], g), LoadField(expr.name))
      [] OTHER -> g

\* ir.rs:77-86: the last block gets a Ret unless it ends with one
EnsureReturn(blocks) ==
    LET last == blocks[Len(blocks)].instructions
    IN  IF last = <<>> \/ last[Len(last)].op # "Ret"
        THEN [blocks EXCEPT ![Len(blocks)].instructions = Append(@, Ret)]
        ELSE blocks

\* IRGenerator::generate on FunctionDef { name, params, body } (ir.rs:68-93):
\* the function and the temp_counter the generator is left with
generate(temp_counter, name, params, body) ==
    LET g == gen_expr(body, [blocks |-> <<IRBlock("entry", <<>>)>>,
                             temp_counter |-> temp_counter])
    IN  [func |-> IRFunction(name, params, EnsureReturn(g.blocks)),
         temp_counter |-> g.temp_counter]

\* The bodies of SpecGen: expressions, statements of expressions, and
\* conditionals, loops and blocks of statements
GenExprs == {IntLiteral(1), BoolLiteral(TRUE), Identifier("a")}

GenStmts ==
    GenExprs
    \cup {LetStmt("x", e) : e \in GenExprs}
    \cup {BinaryOp(Identifier("a"), op, e) : op \in {"+", "<", "%"}, e \in GenExprs}
    \cup {ReturnStmt(<<>>), Block(<<>>), Break}
    \cup {ReturnStmt(<<e>>) : e \in GenExprs}
    \cup {FunctionCall("f", <<e>>) : e \in GenExprs}
    \cup {MemberAccess(StructLiteral("P", <<"x">>, <<IntLiteral(1)>>), "x"),
          SpawnExpr("Idle", <<>>), SendExpr(Identifier("a"), IntLiteral(1)),
          ReceiveExpr(<<IntLiteral(1)>>), MatchExpr(Identifier("a"), <<IntLiteral(1)>>)}

GenShort == {IntLiteral(1), LetStmt("x", IntLiteral(1)), ReturnStmt(<<Identifier("a")>>),
             Block(<<>>)}

GenBodies ==
    GenStmts
    \cup {IfExpr(<<c, t>>) : c \in {BoolLiteral(TRUE), Block(<<>>)}, t \in GenShort}
    \cup {IfExpr(<<BinaryOp(Identifier("a"), "<", IntLiteral(1)), t, e>>) :
             t \in GenShort, e \in GenShort}
    \cup {WhileLoop(BoolLiteral(TRUE), b) : b \in GenShort}
    \cup {Loop(b) : b \in GenShort}
    \cup {Block(<<s, t>>) : s \in GenShort, t \in GenStmts}

\* IRGenerator::generate on fn f(a) { body }
GenGenerate ==
    /\ gen.ir = <<>>
    /\ LET r == generate(gen.temp_counter, "f", <<"a">>, gen.ast)
       IN  gen' = [gen EXCEPT !.ir = <<r.func>>, !.temp_counter = r.temp_counter]
    /\ UNCHANGED <<heap, vmVars, gcVars, jitVars, hot, opz, icache, tcall, octx, probe, bc>>

\* BytecodeOptimizer::optimize, of a new optimizer, on the generated function
GenOptimize ==
    /\ gen.ir # <<>>
    /\ gen.spec = <<>>
    /\ gen' = [gen EXCEPT !.spec = <<optimize(OptimizerNew, gen.ir[1]).func>>]
    /\ UNCHANGED <<heap, vmVars, gcVars, jitVars, hot, opz, icache, tcall, octx, probe, bc>>

InitGen ==
    /\ gen \in {[ast |-> body, temp_counter |-> 0, ir |-> <<>>, spec |-> <<>>] :
                   body \in GenBodies}
    /\ VmAtRest
    /\ GcAtRest
    /\ JitAtRest
    /\ HotAtRest /\ OptAtRest /\ CacheAtRest /\ TailAtRest /\ CtxAtRest /\ ProbeAtRest
    /\ BcAtRest

NextGen == GenGenerate \/ GenOptimize

SpecGen == InitGen /\ [][NextGen]_vars

\* What a specialized opcode adds to the depth of the operand stack
StackEffect(o) ==
    CASE o.op \in {"PushSmallInt", "LoadLocalFast"} -> 1
      [] o.op = "StoreLocalFast" -> -1
      [] o.op \in IntOps -> -1
      [] o.op = "TailCall" -> 1 - o.i
      [] o.op = "Generic" ->
            (CASE o.g.op \in {"PushInt", "PushFloat", "PushStr", "PushBool", "LoadVar",
                              "Receive"} -> 1
               [] o.g.op \in {"StoreVar", "JmpIfFalse"} -> -1
               [] o.g.op \in BinaryOps -> -1
               [] o.g.op = "PushStruct" -> 1 - Len(o.g.fs)
               [] o.g.op \in {"Call", "Spawn"} -> 1 - o.g.i
               [] o.g.op = "Send" -> -2
               [] OTHER -> 0)
      [] OTHER -> 0

RECURSIVE RetDepths(_, _, _, _, _)
\* The depths of the operand stack at the Rets that the paths from
\* instruction k (from 1) of block b (from 1) reach without entering a block
\* twice; `seen` are the blocks entered, `depth` the depth before the
\* instruction
RetDepths(func, b, k, depth, seen) ==
    IF b > Len(func.blocks) THEN {}
    ELSE LET ins == func.blocks[b].instructions
             Enter(t, d) == IF t = 0 \/ t \in seen THEN {}
                            ELSE RetDepths(func, t, 1, d, seen \cup {t})
         IN  IF k > Len(ins) THEN Enter(IF b < Len(func.blocks) THEN b + 1 ELSE 0, depth)
             ELSE LET o == ins[k]
                  IN  IF o.op = "Generic" /\ o.g.op = "Ret" THEN {depth}
                      ELSE IF o.op = "TailCall" THEN {}
                      ELSE IF o.op = "Generic" /\ o.g.op = "Jmp"
                      THEN Enter(BlockOf(func, o.g.s) + 1, depth)
                      ELSE IF o.op = "Generic" /\ o.g.op = "JmpIfFalse"
                      THEN Enter(BlockOf(func, o.g.s) + 1, depth - 1)
                           \cup RetDepths(func, b, k + 1, depth - 1, seen)
                      ELSE RetDepths(func, b, k + 1, depth + StackEffect(o), seen)

\* C26: in every function the IR generator and the specializer have produced,
\* the operand-stack effects of the opcodes, summed along any acyclic path
\* from the entry to a Ret, give a depth of at least 1 at that Ret.
C26_RetFindsAValue ==
    gen.spec # <<>> => \A d \in RetDepths(gen.spec[1], 1, 1, 0, {1}) : d >= 1

(***************************************************************************)
(* SpecBorrow: the BorrowChecker (borrow_checker.rs).  The borrow stack is *)
(* a sequence of scopes, the innermost last; a scope maps a variable to    *)
(* the sequence of its borrows.  Every borrow of the model is taken at the *)
(* same span, as in the tests.                                             *)
(***************************************************************************)
BcNames == {"x", "y"}

BorrowTypes == {"Immutable", "Mutable"}

\* The calls made on one checker
MaxBcCalls == 2

Borrow(var, b_type) == [var_name |-> var, borrow_type |-> b_type]

\* The borrows of var recorded in one scope: scope.get(&var)
ScopeGet(scope, var) == IF var \in DOMAIN scope THEN scope[var] ELSE <<>>

RECURSIVE BorrowsOf(_, _)
\* The borrows of var over all scopes, outermost first
BorrowsOf(borrow_stack, var) ==
    IF borrow_stack = <<>> THEN <<>>
    ELSE ScopeGet(Head(borrow_stack), var) \o BorrowsOf(Tail(borrow_stack), var)

enter_scope(borrow_stack) == Append(borrow_stack, EmptyMap)

exit_scope(borrow_stack) ==
    IF borrow_stack = <<>> THEN <<>> ELSE SubSeq(borrow_stack, 1, Len(borrow_stack) - 1)

\* add_borrow without the test of the immutable arm
add_borrow_SharedUnchecked(borrow_stack, var, b_type) ==
    LET existing      == BorrowsOf(borrow_stack, var)
        total_borrows == Len(existing)
        last          == Len(borrow_stack)
    IN  IF b_type = "Mutable" /\ total_borrows > 0
        THEN [ok |-> FALSE, borrow_stack |-> borrow_stack]
        ELSE [ok |-> TRUE,
              borrow_stack |->
                  [borrow_stack EXCEPT ![last] =
                      MapInsert(@, var, Append(ScopeGet(@, var), Borrow(var, b_type)))]]

\* BorrowChecker::add_borrow: the result and the borrow stack it leaves
add_borrow(borrow_stack, var, b_type) ==
    LET existing      == BorrowsOf(borrow_stack, var)
        total_borrows == Len(existing)
        has_mutable   == \E i \in 1..Len(existing) : existing[i].borrow_type = "Mutable"
        last          == Len(borrow_stack)
    IN  IF b_type = "Mutable" /\ total_borrows > 0
        THEN [ok |-> FALSE, borrow_stack |-> borrow_stack]
        ELSE IF b_type # "Mutable" /\ has_mutable
        THEN [ok |-> FALSE, borrow_stack |-> borrow_stack]
        ELSE [ok |-> TRUE,
              borrow_stack |->
                  [borrow_stack EXCEPT ![last] =
                      MapInsert(@, var, Append(ScopeGet(@, var), Borrow(var, b_type)))]]

Program(nodes) == Ast("Program", 0, "", <<>>, nodes)

FunctionDef(name, body) == Ast("FunctionDef", 0, name, <<>>, <<body>>)

UnaryOp(op, operand) == Ast("UnaryOp", 0, op, <<>>, <<operand>>)

RECURSIVE check(_, _)
RECURSIVE CheckEach(_, _)
\* BorrowChecker::check: the result and the borrow stack it leaves; an Err
\* of a nested call returns at once (the ? operator)
check(borrow_stack, ast) ==
    CASE ast.node = "Program" -> CheckEach(borrow_stack, ast.kids)
      [] ast.node = "FunctionDef" ->
            LET r == check(enter_scope(borrow_stack), ast.kids[1])
            IN  IF r.ok THEN [ok |-> TRUE, borrow_stack |-> exit_scope(r.borrow_stack)]
                ELSE r
      [] ast.node = "Block" ->
            LET r == CheckEach(enter_scope(borrow_stack), ast.kids)
            IN  IF r.ok THEN [ok |-> TRUE, borrow_stack |-> exit_scope(r.borrow_stack)]
                ELSE r
      [] ast.node = "LetStmt" -> check(borrow_stack, ast.kids[1])
      [] ast.node = "UnaryOp" ->
            IF ast.name \in {"&", "&mut"}
            THEN IF ast.kids[1].node = "Identifier"
                 THEN LET r == add_borrow(borrow_stack, ast.kids[1].name,
                                          IF ast.name = "&mut" THEN "Mutable"
                                          ELSE "Immutable")
                      IN  IF r.ok THEN check(r.borrow_stack, ast.kids[1]) ELSE r
                 ELSE [ok |-> FALSE, borrow_stack |-> borrow_stack]
            ELSE check(borrow_stack, ast.kids[1])
      [] ast.node \in {"BinaryOp", "IfExpr"} -> CheckEach(borrow_stack, ast.kids)
      [] OTHER -> [ok |-> TRUE, borrow_stack |-> borrow_stack]

\* check on the nodes of a sequence in order, up to the first Err
CheckEach(borrow_stack, nodes) ==
    IF nodes = <<>> THEN [ok |-> TRUE, borrow_stack |-> borrow_stack]
    ELSE LET r == check(borrow_stack, Head(nodes))
         IN  IF r.ok THEN CheckEach(r.borrow_stack, Tail(nodes)) ELSE r

\* let r = &x; and let r = &mut x;
BcLets == {LetStmt("r", UnaryOp(op, Identifier(v))) : op \in {"&", "&mut"}, v \in BcNames}

\* Statements of the programs checked: a let of a literal, a borrow, a
\* borrow of something that is no identifier, a borrow in a nested block
BcStmts ==
    BcLets
    \cup {LetStmt("x", IntLiteral(5)), UnaryOp("&", IntLiteral(5)), UnaryOp("-", Identifier("x"))}
    \cup {Block(<<s>>) : s \in BcLets}

\* The programs checked: blocks and function bodies of one or two statements
\* (among them the two programs of tests/borrow_checker.rs without their
\* first let), a conditional, and a program of top-level statements
BcAsts ==
    {Block(<<s>>) : s \in BcStmts}
    \cup {Block(<<s, t>>) : s \in BcStmts, t \in BcLets}
    \cup {FunctionDef("f", Block(<<s, t>>)) : s \in BcLets, t \in BcLets}
    \cup {IfExpr(<<BoolLiteral(TRUE), Block(<<s>>), Block(<<t>>)>>) : s \in BcLets, t \in BcLets}
    \cup {Program(<<s, t>>) : s \in BcLets, t \in BcLets}

\* checker.add_borrow(var, b_type, span)
BcAddBorrow ==
    /\ bc.calls < MaxBcCalls
    /\ \E var \in BcNames, b_type \in BorrowTypes :
          LET r == add_borrow(bc.borrow_stack, var, b_type)
          IN  bc' = [borrow_stack |-> r.borrow_stack, before |-> bc.borrow_stack,
                     call |-> [fn |-> "add_borrow", var |-> var, b_type |-> b_type],
                     ret |-> IF r.ok THEN "Ok" ELSE "Err", calls |-> bc.calls + 1]
    /\ UNCHANGED <<heap, vmVars, gcVars, jitVars, hot, opz, icache, tcall, octx, probe, gen>>

\* checker.check(&ast)
BcCheck ==
    /\ bc.calls < MaxBcCalls
    /\ \E ast \in BcAsts :
          LET r == check(bc.borrow_stack, ast)
          IN  bc' = [borrow_stack |-> r.borrow_stack, before |-> bc.borrow_stack,
                     call |-> [fn |-> "check", ast |-> ast],
                     ret |-> IF r.ok THEN "Ok" ELSE "Err", calls |-> bc.calls + 1]
    /\ UNCHANGED <<heap, vmVars, gcVars, jitVars, hot, opz, icache, tcall, octx, probe, gen>>

InitBorrow ==
    /\ VmAtRest
    /\ GcAtRest
    /\ JitAtRest
    /\ AuxAtRest

NextBorrow == BcAddBorrow \/ BcCheck

SpecBorrow == InitBorrow /\ [][NextBorrow]_vars

\* Any number of immutable borrows, or one mutable borrow and no other
Exclusive(borrows) ==
    \/ \A i \in 1..Len(borrows) : borrows[i].borrow_type = "Immutable"
    \/ Len(borrows) = 1 /\ borrows[1].borrow_type = "Mutable"

\* C31: after any sequence of calls the borrows of every variable, over all
\* scopes, are any number of immutable borrows or one mutable borrow and no
\* other; an add_borrow that would break this returns Err and records
\* nothing, an add_borrow that would not returns Ok and records its borrow,
\* and it leaves the borrows of every other variable as they were.
C31_BorrowsExclusive ==
    /\ \A var \in BcNames : Exclusive(BorrowsOf(bc.borrow_stack, var))
    /\ bc.call.fn = "add_borrow" =>
          LET var  == bc.call.var
              was  == BorrowsOf(bc.before, var)
              with == Append(was, Borrow(var, bc.call.b_type))
          IN  /\ bc.ret = "Err" <=> ~Exclusive(with)
              /\ bc.ret = "Err" => bc.borrow_stack = bc.before
              /\ bc.ret = "Ok" => BorrowsOf(bc.borrow_stack, var) = with
              /\ \A other \in BcNames \ {var} :
                    BorrowsOf(bc.borrow_stack, other) = BorrowsOf(bc.before, other)

\* An add_borrow has been refused while the other variable is borrowed
C31_Witness_RefusedBesideOther ==
    /\ bc.call.fn = "add_borrow"
    /\ bc.ret = "Err"
    /\ \E other \in BcNames \ {bc.call.var} : BorrowsOf(bc.borrow_stack, other) # <<>>

\* { { let r = &mut x; } let r = &x; } and { let r = &mut x; let r = &x; }
\* (tests/borrow_checker.rs:38 and :82, without the let of a literal)
BorrowInInnerBlock ==
    Block(<<Block(<<LetStmt("r", UnaryOp("&mut", Identifier("x")))>>),
            LetStmt("r", UnaryOp("&", Identifier("x")))>>)

BorrowsInOneScope ==
    Block(<<LetStmt("r", UnaryOp("&mut", Identifier("x"))),
            LetStmt("r", UnaryOp("&", Identifier("x")))>>)

\* The last call was a check of a block, a function body or a conditional
\* of blocks: every borrow of it is taken inside a scope the check enters
CheckedScoped == bc.call.fn = "check" /\ bc.call.ast.node # "Program"

\* C32: when check returns, the scopes it entered are gone and with them
\* the borrows taken in them, so the borrows of every variable are those
\* from before the call; a mutable borrow in an inner block followed by an
\* immutable borrow after the block is accepted by a checker without
\* borrows of the variable, the same two borrows in one scope are rejected.
C32_ScopeEndReleases ==
    CheckedScoped =>
        /\ Len(bc.borrow_stack) = Len(bc.before)
        /\ \A var \in BcNames :
              BorrowsOf(bc.borrow_stack, var) = BorrowsOf(bc.before, var)
        /\ bc.call.ast = BorrowInInnerBlock /\ BorrowsOf(bc.before, "x") = <<>>
              => bc.ret = "Ok"
        /\ bc.call.ast = BorrowsInOneScope => bc.ret = "Err"

\* The same without the checks that returned Err
C32_ScopeEndReleasesAfterOk ==
    bc.ret = "Ok" => C32_ScopeEndReleases

(***************************************************************************)
(* The baseline VM with one context.                                       *)
(***************************************************************************)
\* The program of the scenario has no Spawn: the root is the only context
SingleContext ==
    \A f \in SeqRange(ScenarioProgram(scenario)) :
        \A b \in SeqRange(f.blocks) :
            \A ins \in SeqRange(b.instructions) : ins.op # "Spawn"

\* The slots the Object values on the operand stack, in the locals of the
\* frames and in the globals of a VM name, and the slots named by the
\* fields of the structs among them, and so on
ReachableSlots(vm, h) ==
    LET roots == ObjectIndices(HeldValues(vm) \cup SeqRange(MapValues(vm.globals)))
        inside == {i \in roots : i < Len(h.objects)}
    IN  roots \cup ReachFrom(h.objects, inside)

\* C33: with a single context, in every state every slot reachable from the
\* operand stack, the locals of the frames on the call stack or the globals
\* is occupied; in every step a slot that stays reachable keeps its object,
\* and a slot that becomes reachable was empty before and has just been
\* allocated.  So every Object value refers to the object it was created
\* with and LoadField reads no freed or re-allocated slot, over any number
\* of collections and reuses of slots.
C33_SingleContextObjectsStayLive ==
    [][SingleContext =>
          /\ \A i \in ReachableSlots(ctx[0], heap) : Occupied(i)
          /\ \A i \in ReachableSlots(ctx'[0], heap') :
                /\ i < Len(heap'.objects) /\ heap'.objects[i + 1].kind # "None"
                /\ IF i \in ReachableSlots(ctx[0], heap)
                   THEN heap'.objects[i + 1] = heap.objects[i + 1]
                   ELSE ~Occupied(i)]_vars

\* hold has left its loop after collections that freed slots which later
\* strings took again, and has loaded the field of its struct
C33_Witness_FieldLoadedAfterReuse ==
    /\ scenario = "gc_reuse"
    /\ Len(ctx[0].call_stack) = 2
    /\ "i" \in DOMAIN ctx[0].call_stack[2].locals
    /\ ctx[0].call_stack[2].locals["i"] = VInt(GcSpins)
    /\ ctx[0].stack # <<>>
    /\ ctx[0].stack[Len(ctx[0].stack)] = Object(1)
    /\ heap.objects[2] = StrObj("s")
    /\ heap.free_list # <<>>
    /\ Len(heap.objects) < GcSpins

(***************************************************************************)
(* The successor of JmpIfFalse in the interpreter and in the native code.  *)
(***************************************************************************)
RECURSIVE Successor(_, _, _)
\* The instruction that runs next at instruction k (from 0) of block b
\* (from 0): past the end of a block it is the first of the next block,
\* past the last block the function is over
Successor(func, b, k) ==
    IF b >= Len(func.blocks) THEN <<"end", 0>>
    ELSE IF k >= Len(func.blocks[b + 1].instructions) THEN Successor(func, b + 1, 0)
    ELSE <<b, k>>

\* The interpreter is about to execute a JmpIfFalse of the entry function
\* with a boolean on top of its stack
OvmAtJump ==
    /\ ovm.pc = "running"
    /\ Len(ovm.frames) = 1
    /\ OvmCurOp(ovm).op = "Generic" /\ OvmCurOp(ovm).g.op = "JmpIfFalse"
    /\ ovm.stack # <<>>
    /\ ovm.stack[Len(ovm.stack)].tag = "Bool"

\* The native code is at the same JmpIfFalse with the same condition
NativeAtSameJump ==
    /\ nat.status = "running"
    /\ nat.block = OvmTopFrame(ovm).block_idx + 1
    /\ nat.instr = OvmTopFrame(ovm).instr_idx + 1
    /\ nat.stack # <<>>
    /\ nat.stack[Len(nat.stack)] = ToNative(ovm.stack[Len(ovm.stack)])

InterpreterSuccessor ==
    LET fr == OvmTopFrame(OvmExec(ovm))
    IN  Successor(JitEntry, fr.block_idx, fr.instr_idx)

NativeSuccessor ==
    LET n == NativeExec(nat, JitEntry)
    IN  Successor(JitEntry, n.block - 1, n.instr - 1)

\* C34: whenever the interpreter stands at a JmpIfFalse with a boolean
\* condition, the function has been compiled to native code (no "must have
\* fallthrough" error), and native code that stands at the same JmpIfFalse
\* with the same condition continues at the instruction the interpreter
\* continues at, wherever in its block and in whichever block the JmpIfFalse
\* stands.
C34_NativeJumpSameSuccessor ==
    OvmAtJump =>
        /\ nat.err # "JmpIfFalse must have fallthrough"
        /\ NativeAtSameJump => NativeSuccessor = InterpreterSuccessor

\* The same for the JmpIfFalse that ends a block which is not the last
C34_NativeJumpSameSuccessorAtBlockEnd ==
    (/\ OvmAtJump
     /\ OvmTopFrame(ovm).block_idx + 1 < Len(JitEntry.blocks)
     /\ OvmTopFrame(ovm).instr_idx + 1
           = Len(JitEntry.blocks[OvmTopFrame(ovm).block_idx + 1].instructions))
        => C34_NativeJumpSameSuccessor

(***************************************************************************)
(* Loads of a variable that has no value.                                  *)
(***************************************************************************)
\* The root is about to load a name that is neither a local of the current
\* frame nor a global
RootLoadsUnbound ==
    /\ ctx[0].pc = "running"
    /\ BaseCurOp(ctx[0]) = "LoadVar"
    /\ RootInstr.s \notin DOMAIN CurFrame(ctx[0]).locals
    /\ RootInstr.s \notin DOMAIN ctx[0].globals

\* The OptimizedVM is about to load a slot in peek, which has no parameter
\* and stores to no variable, or in the entry block of main (which has no
\* parameters) a slot that no instruction before has stored to
OvmLoadsUnbound ==
    /\ ovm.pc = "running"
    /\ OvmCurOp(ovm).op = "LoadLocalFast"
    /\ \/ OvmTopFrame(ovm).func_name = "peek"
       \/ /\ Len(ovm.frames) = 1
          /\ OvmTopFrame(ovm).block_idx = 0
          /\ LET entry == ovm.functions[OvmTopFrame(ovm).func_name].blocks[1].instructions
             IN  \A k \in 1..OvmTopFrame(ovm).instr_idx :
                    ~(entry[k].op = "StoreLocalFast" /\ entry[k].i = OvmCurOp(ovm).i)

UnknownVariableReturned(vm) == vm.pc = "returned" /\ vm.result.kind = "err"

\* The baseline half of C35
BaseUnboundLoadFails ==
    [][(RootLoadsUnbound /\ RootSteps)
          => ctx'[0].pc = "returned" /\ ctx'[0].result = Err("Variable not found")]_vars

\* C35: a load of a variable that has no value in the current frame and is
\* no global makes execute return an error, in the baseline VM and in the
\* OptimizedVM; nothing is pushed and the execution does not continue.
C35_UnboundLoadFails ==
    [][/\ (RootLoadsUnbound /\ RootSteps)
             => ctx'[0].pc = "returned" /\ ctx'[0].result = Err("Variable not found")
       /\ (OvmLoadsUnbound /\ ovm' # ovm) => UnknownVariableReturned(ovm')]_vars

(***************************************************************************)
(* SpecHeap: a Heap from Heap::new on, under any sequence of alloc and gc. *)
(* gc_pre is the heap before the last call; after an alloc gc_in.stack     *)
(* holds the Object the caller pushes (vm.rs:360-362), after a gc gc_in    *)
(* are the roots it was called with.                                       *)
(***************************************************************************)
\* heap.alloc(obj), obj a string or a struct whose field names a slot
HeapAlloc ==
    /\ Len(heap.objects) < HeapSlots \/ heap.free_list # <<>>
    /\ \E obj \in GcObjects(Len(heap.objects)) \ {NoneObj} :
          LET r == Alloc(heap, obj)
          IN  /\ heap' = r.heap
              /\ gc_in' = [stack |-> <<Object(r.idx)>>, call_stack |-> <<>>,
                           globals |-> EmptyMap]
    /\ gc_pre' = heap
    /\ gc_done' = FALSE
    /\ UNCHANGED <<vmVars, jitVars, auxVars>>

\* The roots of the collections: an operand stack of at most two values
HeapRoots(n) ==
    {[stack |-> st, call_stack |-> <<>>, globals |-> EmptyMap] :
        st \in SeqsUpTo(GcValues(n), 2)}

\* heap.gc(stack, call_stack, globals)
HeapGc ==
    /\ \E roots \in HeapRoots(Len(heap.objects)) :
          /\ heap' = Gc(heap, roots.stack, roots.call_stack, roots.globals)
          /\ gc_in' = roots
    /\ gc_pre' = heap
    /\ gc_done' = TRUE
    /\ UNCHANGED <<vmVars, jitVars, auxVars>>

InitHeap ==
    /\ VmAtRest
    /\ GcAtRest
    /\ JitAtRest
    /\ AuxAtRest

NextHeap == HeapAlloc \/ HeapGc

SpecHeap == InitHeap /\ [][NextHeap]_vars

EmptySlots(h) == {i \in 0..(Len(h.objects) - 1) : h.objects[i + 1].kind = "None"}

\* The last call was an alloc
Allocated == ~gc_done /\ heap # gc_pre

RootRunning == ctx[0].pc = "running"

\* An actor the registry shows as BlockedOnReceive has a message waiting
BlockedWithMessage ==
    \E a \in DOMAIN registry.actors :
        /\ registry.actors[a].status = "BlockedOnReceive"
        /\ mailbox[a].queue # <<>>

\* C37: the sentinel sends the deadlock signal, and with it aborts every
\* execution that sees it, only from a state in which the root is not
\* running and no actor marked BlockedOnReceive has an undelivered message
\* in its mailbox.
C37_DeadlockOnlyWhenNoProgress ==
    [][deadlock_sent' # deadlock_sent => ~RootRunning /\ ~BlockedWithMessage]_vars

\* The two halves of C37
C37_NoSignalWhileRootRuns == [][deadlock_sent' # deadlock_sent => ~RootRunning]_vars

C37_NoSignalWhileMessageWaits ==
    [][deadlock_sent' # deadlock_sent => ~BlockedWithMessage]_vars

(***************************************************************************)
(* Delivery of messages.                                                   *)
(***************************************************************************)
RECURSIVE DeliveredTo(_, _)
\* The messages the Sends have put into the mailbox of actor r, in the
\* order of the Sends
DeliveredTo(log, r) ==
    IF log = <<>> THEN <<>>
    ELSE (IF Head(log).to = r /\ Head(log).delivered THEN <<Head(log).msg>> ELSE <<>>)
         \o DeliveredTo(Tail(log), r)

\* How often m occurs in seq
Occurrences(seq, m) == Cardinality({i \in 1..Len(seq) : seq[i] = m})

\* C38: whatever the interleaving, every context has taken from its
\* Receives no message more often than Sends have put it into its own
\* mailbox: what a Receive of A pushes was sent to A, and no Send is
\* received twice; a message still queued is counted with those received.
C38_DeliveredOnceToTarget ==
    \A r \in DOMAIN ctx :
        \A m \in SeqRange(ctx[r].received) \cup SeqRange(mailbox[r].queue) :
            Occurrences(ctx[r].received, m) + Occurrences(mailbox[r].queue, m)
                <= Occurrences(DeliveredTo(sent, r), m)

\* The sink has taken its three messages and the relay its one
C38_Witness_TwoReceivers ==
    /\ scenario = "fifo"
    /\ DOMAIN ctx = {0, 1, 2}
    /\ Len(ctx[1].received) = 3
    /\ ctx[2].received = <<Actor(1)>>

(***************************************************************************)
(* Actor ids, registry entries and children lists.                         *)
(***************************************************************************)
\* What of a registry entry identifies the actor
Identity(meta) ==
    [id |-> meta.id, func_name |-> meta.func_name, args |-> meta.args,
     parent_id |-> meta.parent_id]

\* The ids given out so far are 1 .. next_id - 1, each registered under its
\* own id; an actor whose parent is registered is in that parent's children
\* list once, and a children list holds nothing else
RegistryConsistent(reg) ==
    /\ DOMAIN reg.actors = 1..(reg.next_id - 1)
    /\ \A a \in DOMAIN reg.actors : reg.actors[a].id = a
    /\ \A p \in DOMAIN reg.actors :
          /\ \A a \in DOMAIN reg.actors :
                Occurrences(reg.actors[p].children, a)
                    = IF reg.actors[a].parent_id = p THEN 1 ELSE 0
          /\ SeqRange(reg.actors[p].children) \subseteq DOMAIN reg.actors

\* C39: under every interleaving of the Spawns of the contexts the registry
\* is consistent (see RegistryConsistent); in every step every entry stays
\* with its id, function, arguments and parent, a children list changes
\* only by growing at its end, and every new entry has an id that was not
\* registered and is not below the next_id of before.
C39_SpawnIdsUniqueRegistryGrows ==
    /\ []RegistryConsistent(registry)
    /\ [][/\ \A a \in DOMAIN registry.actors :
                /\ a \in DOMAIN registry'.actors
                /\ Identity(registry'.actors[a]) = Identity(registry.actors[a])
                /\ IsPrefix(registry.actors[a].children, registry'.actors[a].children)
          /\ \A a \in DOMAIN registry'.actors \ DOMAIN registry.actors :
                a >= registry.next_id /\ a < registry'.next_id]_vars

\* The actor main spawned first has two children, and an actor main
\* spawned in between them has an id between theirs
C39_Witness_InterleavedSpawns ==
    /\ scenario = "spawn_tree"
    /\ DOMAIN registry.actors = 1..4
    /\ registry.actors[1].children = <<2, 4>>
    /\ registry.actors[3].parent_id = 0

(***************************************************************************)
(* SpecAgain: one OptimizedVM, loaded once, on which execute is called     *)
(* several times.  jit_prog and jit_args are the function and the          *)
(* arguments of the last call, hot.execs counts the calls.                 *)
(***************************************************************************)
\* The calls of execute on one VM
MaxExecs == 3

\* fn leave() { 7; return 8 }: returns with a value left below the result
LeaveFn == IRFunction("leave", <<>>, <<IRBlock("entry", <<PushInt(7), PushInt(8), Ret>>)>>)

\* fn fail() { 5; return 1 / 0 }: fails with a value left on the stack
FailFn ==
    IRFunction("fail", <<>>, <<IRBlock("entry", <<PushInt(5), PushInt(1), PushInt(0), Div,
                                                  Ret>>)>>)

\* fn set() { let v = 9; return v }
SetFn ==
    IRFunction("set", <<>>, <<IRBlock("entry", <<PushInt(9), StoreVar("v"), LoadVar("v"),
                                                 Ret>>)>>)

\* fn last_v() { return v }
LastVFn == IRFunction("last_v", <<>>, <<IRBlock("entry", <<LoadVar("v"), Ret>>)>>)

AgainProgram == <<DoubleFn, BareFn, LeaveFn, FailFn, SetFn, LastVFn>>

\* OptimizedVM::execute(func_name, args) on vm, run to its return
Execute(vm, func_name, args) ==
    OvmRun(OvmEnter([vm EXCEPT !.pc = "running",
                               !.locals = SetArgs(@, [i \in 1..Len(args) |-> VInt(args[i])], 0)],
                    <<>>, OvmFrame(func_name, FALSE, <<>>)))

\* vm.execute(f, args), f a function of the program called with as many
\* arguments as it has parameters
AgainExecute ==
    /\ hot.execs < MaxExecs
    /\ \E f \in DOMAIN ovm.functions :
          \E args \in ArgLists(Len(ovm.functions[f].params)) :
              /\ ovm' = Execute(ovm, f, args)
              /\ jit_prog' = f
              /\ jit_args' = args
    /\ hot' = [hot EXCEPT !.execs = @ + 1]
    /\ UNCHANGED <<nat, heap, vmVars, gcVars, opz, icache, tcall, octx, probe, gen, bc>>

InitAgain ==
    /\ VmAtRest
    /\ GcAtRest
    /\ jit_prog = "arith"
    /\ jit_args = <<0, 0>>
    /\ ovm = OvmLoaded(AgainProgram)
    /\ nat = NativeNew
    /\ AuxAtRest

NextAgain == AgainExecute

SpecAgain == InitAgain /\ [][NextAgain]_vars

\* What execute(jit_prog, jit_args) returns on a VM that has only loaded
\* the program
FirstCallResult == Execute(OvmLoaded(AgainProgram), jit_prog, jit_args).result

\* C40: whatever calls of execute came before on the same VM, a call of
\* execute returns the value or the error that the same call returns as
\* the first call after load_program.
C40_ResultIndependentOfEarlierCalls ==
    ovm.pc = "returned" => ovm.result = FirstCallResult

\* The same for the calls that find the operand stack empty and the local
\* slots as load_program left them
C40_ResultOnCleanVm ==
    [][(ovm.stack = <<>> /\ ovm.locals = OvmLoaded(AgainProgram).locals /\ ovm' # ovm)
          => ovm'.result = Execute(OvmLoaded(AgainProgram), jit_prog', jit_args').result]_vars

=============================================================================
